---- MODULE Spec2Model ----
(***************************************************************************)
(* Adaptive drill engine of rhodes-french: the review scheduler            *)
(* (Storage.reviewCard), the SRS session queue (startSRSSession), the      *)
(* drill session (checkAnswer, nextDrill), the error classifier            *)
(* (FSI_Error.classify), the daily backups of Storage.save and the queue   *)
(* of responses FSI_Auth sends to the cloud (JSONbin, Firestore).          *)
(*                                                                         *)
(* Encoding.  Times are whole days (the code adds `interval` calendar days *)
(* to the grading time).  ease is kept in hundredths (2.5 is 250), so the  *)
(* SM-2 step 0.1 - (3-q)*(0.08 + (3-q)*0.02) is exact; on every ease the   *)
(* model reaches (MaxEase at most 4.3) the IEEE-754 doubles of the code    *)
(* round to the same interval as the decimal arithmetic used here.         *)
(* commonality is kept in hundredths, so the review-unit penalty is 10.    *)
(***************************************************************************)
EXTENDS Integers, Sequences, FiniteSets, TLC

VARIABLES drillsData,          \* drill catalogue, in file order
          cards,               \* Storage.data.cards: drill id -> review record
          totalReviews,        \* Storage.data.stats.totalReviews
          stored,              \* localStorage[STORAGE_KEY]: <<>> or <<document>>
          now,                 \* wall clock, in days
          currentDrills,       \* session queue
          currentDrillIndex,
          sessionCorrect,
          sessionTotal,
          currentMode,
          drillActive,         \* drillView carries the class 'active'
          nextBtnShown,        \* nextBtn is displayed (checkBtn is hidden)
          timers,              \* pending setTimeout(() => nextDrill(), ..) callbacks
          retryMode,           \* part_001: the answer must be retyped correctly
          userInput,           \* the text given to FSI_Error.classify
          expected,            \* the text it is compared with
          result,              \* what classify returned
          backups,             \* days d with a localStorage key fsi_backup_<d>
          pendingWrites,       \* FSI_Auth.pendingWrites
          pendingStored,       \* localStorage['fsi_pending_writes']
          cloud,               \* the user's responses held by the cloud service
          flushes,             \* flushPendingWrites calls waiting on the network
          accepted             \* responses queued so far

vars == <<drillsData, cards, totalReviews, stored, now, currentDrills,
          currentDrillIndex, sessionCorrect, sessionTotal, currentMode,
          drillActive, nextBtnShown, timers, retryMode, userInput, expected, result,
          backups, pendingWrites, pendingStored, cloud, flushes, accepted>>

classifyVars == <<userInput, expected, result>>

authVars == <<pendingWrites, pendingStored, cloud, flushes, accepted>>

sessionVars == <<currentDrills, currentDrillIndex, sessionCorrect, sessionTotal, currentMode,
                 drillActive, nextBtnShown, timers, retryMode>>

----------------------------------------------------------------------------
(* Bounds of the model *)

MaxReviews == 8       \* gradings per run
MaxNow == 2           \* last day the clock ticks to
MaxEase == 280        \* largest ease a Good grading may produce
MaxGoodRun == 20      \* gradings in a run of Good ratings
MaxInterval == 2000   \* largest interval a card is graded from

(* Program constants *)

EaseFloor == 130      \* Math.max(1.3, ...)
MasteredAbove == 180  \* if (card.interval > 180)
SessionCap == 20      \* currentDrills.slice(0, 20)
MaxSrsUnit == 12      \* drills.filter(d => d.unit <= 12)
GoodThreshold == 2    \* if (quality < 2)
KeepBackups == 10     \* allBackups.slice(10)

NoDate == -1          \* null due / lastReview

REVIEW_UNITS == {6, 12, 18, 24}

Quality == 0..3

----------------------------------------------------------------------------
(* Storage *)

SRS_DEFAULTS ==
  [interval |-> 1, ease |-> 250, reps |-> 0, lapses |-> 0,
   due |-> NoDate, lastReview |-> NoDate, state |-> "new"]

MaxOf(a, b) == IF a >= b THEN a ELSE b

MinOf(a, b) == IF a <= b THEN a ELSE b

\* A step that ignores the quadratic term of the formula
EaseStep_Linear(quality) == 10 - (3 - quality) * 8

\* 0.1 - (3 - quality) * (0.08 + (3 - quality) * 0.02), in hundredths
EaseStep(quality) == 10 - (3 - quality) * (8 + (3 - quality) * 2)

\* Math.floor in place of Math.round
RoundProduct_Floor(interval, ease) == (interval * ease) \div 100

\* Math.round(interval * ease): nearest integer, halves upwards
RoundProduct(interval, ease) == (interval * ease + 50) \div 100

\* A getCard that hands out the defaults for every other record as well
getCard_OnlyThis(cs, drillId) ==
  [x \in DOMAIN cs \cup {drillId} |->
     IF x \in DOMAIN cs /\ x = drillId THEN cs[x] ELSE SRS_DEFAULTS]

\* Storage.getCard: the record of drillId, created from SRS_DEFAULTS when absent
getCard(cs, drillId) ==
  [x \in DOMAIN cs \cup {drillId} |-> IF x \in DOMAIN cs THEN cs[x] ELSE SRS_DEFAULTS]

\* A lapse that keeps the interval
Lapse_KeepInterval(c) == [c EXCEPT !.lapses = @ + 1, !.state = "learning"]

\* quality < 2: card.lapses++; card.interval = 1; card.state = 'learning'
Lapse(c) == [c EXCEPT !.lapses = @ + 1, !.interval = 1, !.state = "learning"]

\* A learning card that graduates with the interval of a new card
Graduate_SameStep(c) ==
  IF c.state = "new" THEN [c EXCEPT !.interval = 1, !.state = "learning"]
  ELSE [c EXCEPT !.interval = 1, !.state = "review"]

\* quality >= 2 on a new or learning card: the two fixed steps
Graduate(c) ==
  IF c.state = "new" THEN [c EXCEPT !.interval = 1, !.state = "learning"]
  ELSE [c EXCEPT !.interval = 3, !.state = "review"]

\* The mastered mark set from 18 days on (a digit of 180 lost)
Grow_MasteredOver18(c, quality) ==
  LET e == MaxOf(EaseFloor, c.ease + EaseStep(quality))
      i == RoundProduct(c.interval, e)
  IN  [c EXCEPT !.ease = e, !.interval = i,
                !.state = IF i > 18 THEN "mastered" ELSE @]

\* quality >= 2 on any other card: ease, interval and the mastered mark
Grow(c, quality) ==
  LET e == MaxOf(EaseFloor, c.ease + EaseStep(quality))
      i == RoundProduct(c.interval, e)
  IN  [c EXCEPT !.ease = e, !.interval = i,
                !.state = IF i > MasteredAbove THEN "mastered" ELSE @]

\* setDate(interval) without the current day of the month
DueDate_SetDay(t, interval) == interval

\* dueDate.setDate(dueDate.getDate() + card.interval)
DueDate(t, interval) == t + interval

\* A grading that takes the repetitions from the count of all reviews
reviewCard_Counting(card, quality, t) ==
  LET c1 == [card EXCEPT !.lastReview = t, !.reps = totalReviews + 1]
      c2 == IF quality < GoodThreshold THEN Lapse(c1)
            ELSE IF c1.state = "new" \/ c1.state = "learning" THEN Graduate(c1)
            ELSE Grow(c1, quality)
  IN  [c2 EXCEPT !.due = DueDate(t, c2.interval)]

\* The record Storage.reviewCard leaves for a card graded with quality at time t
reviewCard(card, quality, t) ==
  LET c1 == [card EXCEPT !.lastReview = t, !.reps = @ + 1]
      c2 == IF quality < GoodThreshold THEN Lapse(c1)
            ELSE IF c1.state = "new" \/ c1.state = "learning" THEN Graduate(c1)
            ELSE Grow(c1, quality)
  IN  [c2 EXCEPT !.due = DueDate(t, c2.interval)]

\* The document Storage.save writes to localStorage
Document(cs, n) == [cards |-> cs, totalReviews |-> n]

\* The n newest of the days S (allBackups.sort().reverse().slice(0, n))
RECURSIVE Newest(_, _)
Newest(S, n) ==
  IF n = 0 \/ S = {} THEN {}
  ELSE LET m == CHOOSE x \in S : \A y \in S : y <= x
       IN  {m} \cup Newest(S \ {m}, n - 1)

\* The backup days after Storage.save() on day t: the keys are listed before today's
\* is written, and the listed keys behind the first KeepBackups are removed
saveBackups(days, t) == (days \cup {t}) \ (days \ Newest(days, KeepBackups))

\* Storage.save() of the document with cards cs and counter n
save(cs, n) ==
  /\ stored' = <<Document(cs, n)>>
  /\ backups' = saveBackups(backups, now)

DrillIds == {drillsData[i].id : i \in 1..Len(drillsData)}

\* A grading that counts the review twice
ReviewCardStorage_CountedTwice(d, quality) ==
  LET cs == getCard(cards, d)
      c  == reviewCard(cs[d], quality, now)
  IN  /\ cs[d].interval <= MaxInterval
      /\ c.ease <= MaxEase
      /\ cards' = [cs EXCEPT ![d] = c]
      /\ totalReviews' = totalReviews + 2
      /\ save(cards', totalReviews')

\* What Storage.reviewCard(d, quality) does to Storage.data and localStorage
ReviewCardStorage(d, quality) ==
  LET cs == getCard(cards, d)
      c  == reviewCard(cs[d], quality, now)
  IN  /\ cs[d].interval <= MaxInterval
      /\ c.ease <= MaxEase
      /\ cards' = [cs EXCEPT ![d] = c]
      /\ totalReviews' = totalReviews + 1
      /\ save(cards', totalReviews')

\* Storage.reviewCard(d, quality), save included
ReviewCardStep(d, quality) ==
  /\ d \in DrillIds
  /\ ReviewCardStorage(d, quality)
  /\ UNCHANGED <<drillsData, authVars, now, sessionVars, classifyVars>>

\* A graded attempt on drill d
ReviewCard(d, quality) ==
  /\ totalReviews < MaxReviews
  /\ ReviewCardStep(d, quality)

\* A graded attempt rated Good, in a run of Good ratings
GoodStep ==
  /\ totalReviews < MaxGoodRun
  /\ \E d \in DrillIds, quality \in GoodThreshold..3 : ReviewCardStep(d, quality)

\* An import that saves whatever the text was
ImportStorage_SaveFirst(text) ==
  IF text.kind = "document"
    THEN /\ cards' = text.cards
         /\ totalReviews' = text.totalReviews
         /\ save(cards', totalReviews')
    ELSE /\ save(cards, totalReviews)
         /\ UNCHANGED <<cards, totalReviews>>

\* Storage.import(jsonString): a text that does not parse, or parses to a
\* document without version or cards, changes nothing
ImportStorage(text) ==
  IF text.kind = "document"
    THEN /\ cards' = text.cards
         /\ totalReviews' = text.totalReviews
         /\ save(cards', totalReviews')
    ELSE UNCHANGED <<cards, totalReviews, stored, backups>>

\* Storage.import(jsonString)
Import(text) ==
  /\ ImportStorage(text)
  /\ UNCHANGED <<drillsData, authVars, now, sessionVars, classifyVars>>

\* A day passes
Tick ==
  /\ now < MaxNow
  /\ now' = now + 1
  /\ UNCHANGED <<drillsData, authVars, cards, totalReviews, stored, backups, sessionVars, classifyVars>>

----------------------------------------------------------------------------
(* SRS session *)

\* The queue entry startSRSSession builds for drill d from its stored card
QueueEntry(d, card) ==
  [id |-> d.id, unit |-> d.unit, commonality |-> d.commonality,
   isReviewUnit |-> d.unit \in REVIEW_UNITS,
   srsState |-> card.state, srsDue |-> card.due, srsReps |-> card.reps]

\* A filter that lets a mastered card through when it is due
Eligible_DueMastered(e, t) ==
  IF e.srsState = "new" THEN TRUE
  ELSE IF e.srsDue # NoDate /\ e.srsDue <= t THEN TRUE
  ELSE FALSE

\* The filter callback: new cards and cards that are due
Eligible(e, t) ==
  IF e.srsState = "new" THEN TRUE
  ELSE IF e.srsState = "mastered" THEN FALSE
  ELSE IF e.srsDue # NoDate /\ e.srsDue <= t THEN TRUE
  ELSE FALSE

\* A score without the review-unit penalty
Score_NoPenalty(e) == e.commonality

\* aScore / bScore of the sort callback
Score(e) == e.commonality + (IF e.isReviewUnit THEN -10 ELSE 0)

DueOrZero(e) == IF e.srsDue = NoDate THEN 0 ELSE e.srsDue

\* The sort callback: negative when a sorts before b
CompareDrills(a, b) ==
  IF a.srsState = "new" /\ b.srsState # "new" THEN -1
  ELSE IF b.srsState = "new" /\ a.srsState # "new" THEN 1
  ELSE IF a.srsState = "new" /\ b.srsState = "new" THEN Score(b) - Score(a)
  ELSE DueOrZero(a) - DueOrZero(b)

\* x put into the sorted sequence s behind every entry that does not sort after it
RECURSIVE InsertSorted(_, _)
InsertSorted(s, x) ==
  IF s = <<>> THEN <<x>>
  ELSE IF CompareDrills(x, Head(s)) < 0 THEN <<x>> \o s
  ELSE <<Head(s)>> \o InsertSorted(Tail(s), x)

\* Array.prototype.sort with CompareDrills (a stable sort)
RECURSIVE SortDrills(_)
SortDrills(s) ==
  IF s = <<>> THEN <<>>
  ELSE InsertSorted(SortDrills(SubSeq(s, 1, Len(s) - 1)), s[Len(s)])

InSrsUnits(d) == d.unit <= MaxSrsUnit

\* Storage.data.cards after getCard ran for every drill of the SRS units
CardsAfterLookup(cs, drills) ==
  LET ids == {drills[i].id : i \in {j \in 1..Len(drills) : InSrsUnits(drills[j])}}
  IN  [x \in DOMAIN cs \cup ids |-> IF x \in DOMAIN cs THEN cs[x] ELSE SRS_DEFAULTS]

\* A queue cut to the cap before it is sorted
BuildQueue_SliceFirst(cs, drills, t) ==
  LET srsDrills == SelectSeq(drills, InSrsUnits)
      mapped    == [i \in 1..Len(srsDrills) |-> QueueEntry(srsDrills[i], cs[srsDrills[i].id])]
      isDue(e)  == Eligible(e, t)
      filtered  == SelectSeq(mapped, isDue)
  IN  SortDrills(SubSeq(filtered, 1, MinOf(SessionCap, Len(filtered))))

\* The queue startSRSSession builds: map, filter, sort, slice
BuildQueue(cs, drills, t) ==
  LET srsDrills == SelectSeq(drills, InSrsUnits)
      mapped    == [i \in 1..Len(srsDrills) |-> QueueEntry(srsDrills[i], cs[srsDrills[i].id])]
      isDue(e)  == Eligible(e, t)
      sorted    == SortDrills(SelectSeq(mapped, isDue))
  IN  SubSeq(sorted, 1, MinOf(SessionCap, Len(sorted)))

StartSRSSession ==
  LET cs    == CardsAfterLookup(cards, drillsData)
      queue == BuildQueue(cs, drillsData, now)
  IN  /\ cards' = cs
      /\ currentDrills' = queue
      /\ IF Len(queue) = 0
           THEN UNCHANGED <<currentDrillIndex, sessionCorrect, sessionTotal, currentMode,
                            drillActive, nextBtnShown>>
           ELSE /\ currentDrillIndex' = 0
                /\ sessionCorrect' = 0
                /\ sessionTotal' = 0
                /\ currentMode' = "srs"
                /\ drillActive' = TRUE       \* showDrill()
                /\ nextBtnShown' = FALSE     \* updateDrillDisplay()
      /\ UNCHANGED <<drillsData, authVars, totalReviews, stored, backups, now, timers, retryMode, classifyVars>>

----------------------------------------------------------------------------
(* Catalogue *)

Drill(id, unit, commonality) == [id |-> id, unit |-> unit, commonality |-> commonality]

SmallCatalogue == << Drill(1, 1, 100), Drill(2, 13, 90) >>

OneDrill == << Drill(1, 1, 100) >>

\* Days on which the cards cs were saved last
SavedOn(cs) == {cs[d].lastReview : d \in DOMAIN cs} \ {NoDate}

\* FSI_Auth before init() has found anything to load
NoCloud ==
  /\ pendingWrites = <<>>
  /\ pendingStored = <<>>
  /\ cloud = <<>>
  /\ flushes = {}
  /\ accepted = 0

FreshStorage ==
  /\ cards = <<>>
  /\ totalReviews = 0
  /\ stored = <<>>
  /\ backups = {}

NoSession ==
  /\ currentDrills = <<>>
  /\ currentDrillIndex = 0
  /\ sessionCorrect = 0
  /\ sessionTotal = 0
  /\ currentMode = "linear"
  /\ drillActive = FALSE
  /\ nextBtnShown = FALSE
  /\ timers = 0
  /\ retryMode = FALSE

\* What the result variable holds before classify has returned
NoResult == [pending |-> TRUE]

\* No text has been handed to the classifier
NoClassification ==
  /\ userInput = <<>>
  /\ expected = <<>>
  /\ result = NoResult

Init ==
  /\ drillsData = SmallCatalogue
  /\ FreshStorage
  /\ now = 0
  /\ NoSession
  /\ NoCloud
  /\ NoClassification

Next ==
  \/ \E d \in DrillIds, q \in Quality : ReviewCard(d, q)
  \/ Tick
  \/ StartSRSSession

Spec == Init /\ [][Next]_vars

----------------------------------------------------------------------------
(* Grading of imported progress *)

ImportIntervals == {1, 2, 100, 200}

ImportEases == {120, 130, 140, 250}

States == {"new", "learning", "review", "mastered"}

\* Records an imported file can hold for a drill
ImportCards ==
  {[interval |-> i, ease |-> e, reps |-> IF st = "new" THEN 0 ELSE 1, lapses |-> 0,
    due |-> IF st = "new" THEN NoDate ELSE i,
    lastReview |-> IF st = "new" THEN NoDate ELSE 0, state |-> st] :
     i \in ImportIntervals, e \in ImportEases, st \in States}

ImportTexts ==
  {[kind |-> k] : k \in {"notjson", "noversion", "nocards"}}
    \cup {[kind |-> "document", cards |-> [x \in {1} |-> c], totalReviews |-> c.reps] :
            c \in ImportCards}

InitImport ==
  /\ drillsData = OneDrill
  /\ FreshStorage
  /\ now = 0
  /\ NoSession
  /\ NoCloud
  /\ NoClassification

NextImport ==
  \/ \E text \in ImportTexts : Import(text)
  \/ \E d \in DrillIds, q \in Quality : ReviewCard(d, q)
  \/ Tick

SpecImport == InitImport /\ [][NextImport]_vars

----------------------------------------------------------------------------
(* Runs of Good ratings from a stored card in state review *)

ReviewIntervals == {1, 2, 3, 8, 50, 180}

ReviewEases == {130, 140, 150, 250}

\* Well-formed records in state review, graded last on day 0
StoredReviewCards ==
  {[interval |-> i, ease |-> e, reps |-> 2, lapses |-> 0, due |-> i,
    lastReview |-> 0, state |-> "review"] : i \in ReviewIntervals, e \in ReviewEases}

\* Storage.init() loaded a document with one card in state review
InitGood ==
  /\ drillsData = OneDrill
  /\ \E c \in StoredReviewCards :
       /\ cards = [x \in {1} |-> c]
       /\ totalReviews = c.reps
       /\ stored = <<Document(cards, totalReviews)>>
  /\ backups = SavedOn(cards)
  /\ now = 0
  /\ NoSession
  /\ NoCloud
  /\ NoClassification

NextGood == GoodStep

SpecGood == InitGood /\ [][NextGood]_vars /\ WF_vars(GoodStep)

----------------------------------------------------------------------------
(* Session building over stored progress *)

NumDrills == 24       \* drills of the catalogue
MaxSeen == 3          \* drills 1..MaxSeen may have a stored card

UnitPattern == <<1, 6, 2, 13, 12, 3, 4, 5>>

\* A catalogue over units 1..13 with commonalities 1.0, 0.95, .. 0.8 (in hundredths)
BigCatalogue ==
  [i \in 1..NumDrills |->
     Drill(i, UnitPattern[((i - 1) % Len(UnitPattern)) + 1], 100 - 5 * ((i - 1) % 5))]

\* The record left by the gradings h = << <<quality, day>>, ... >> of a new card
RECURSIVE CardAfter(_)
CardAfter(h) ==
  IF h = <<>> THEN SRS_DEFAULTS
  ELSE reviewCard(CardAfter(SubSeq(h, 1, Len(h) - 1)), h[Len(h)][1], h[Len(h)][2])

Histories ==
  { <<>>,                                                \* looked up, never graded
    << <<2, 207>> >>,                                    \* learning, due 208
    << <<2, 200>>, <<2, 201>>, <<0, 208>> >>,            \* lapsed, due 209
    << <<2, 205>>, <<2, 206>> >>,                        \* review, due 209
    << <<2, 200>>, <<2, 201>>, <<2, 204>> >>,            \* review, due 212
    << <<2, 0>>, <<2, 1>>, <<2, 4>>, <<2, 12>>, <<2, 32>>, <<2, 500>> >>,
                                                         \* review, due 625
    << <<2, 0>>, <<2, 1>>, <<2, 4>>, <<2, 12>>, <<2, 32>>, <<2, 82>>, <<2, 207>> >> }
                                                         \* mastered, due 520

HistoryCards == {CardAfter(h) : h \in Histories}

SessionTimes == {208, 209, 212, 600}

RECURSIVE SumReps(_, _)
SumReps(cs, ids) ==
  IF ids = {} THEN 0
  ELSE LET x == CHOOSE y \in ids : TRUE IN cs[x].reps + SumReps(cs, ids \ {x})

\* Storage.init() loaded the progress an earlier run saved
InitSession ==
  /\ drillsData = BigCatalogue
  /\ \E S \in SUBSET (1..MaxSeen) : \E f \in [S -> HistoryCards] : cards = f
  /\ totalReviews = SumReps(cards, DOMAIN cards)
  /\ stored = <<Document(cards, totalReviews)>>
  /\ backups = SavedOn(cards)
  /\ now \in SessionTimes
  /\ NoSession
  /\ NoCloud
  /\ NoClassification

NextSession == StartSRSSession

SpecSession == InitSession /\ [][NextSession]_vars

----------------------------------------------------------------------------
(* Drill session: checkAnswer, checkVoiceAnswer, nextDrill, skipDrill.      *)
(* currentDrillIndex counts from 0 as in the code, so the current drill is  *)
(* currentDrills[currentDrillIndex + 1].  Storage.setUnitProgress changes   *)
(* only unitProgress, which the stored document of this model leaves out.   *)

MaxDrills == 6        \* drills of the catalogue a session is started on
MaxAttempts == 2      \* answers checked in one session

RandomOffsets == 0..2 \* Math.floor(Math.random() * 3)

\* drill.wrongCount || 0
WrongCount(e) == IF "wrongCount" \in DOMAIN e THEN e.wrongCount ELSE 0

\* {...drill, wrongCount: (drill.wrongCount || 0) + 1}
WrongDrill(e) ==
  [f \in DOMAIN e \cup {"wrongCount"} |->
     IF f = "wrongCount" THEN WrongCount(e) + 1 ELSE e[f]]

\* An insertion point one to three places behind the cursor
InsertAt_NextItem(index, k, len) == MinOf(index + 1 + k, len)

\* Math.min(currentDrillIndex + 3 + Math.floor(Math.random() * 3), currentDrills.length)
InsertAt(index, k, len) == MinOf(index + 3 + k, len)

\* A splice that puts x over the entry at index at
Splice_Replace(q, at, x) ==
  SubSeq(q, 1, at) \o <<x>> \o SubSeq(q, at + 2, Len(q))

\* q.splice(at, 0, x): at counts from 0, past the end appends
Splice(q, at, x) ==
  SubSeq(q, 1, MinOf(at, Len(q))) \o <<x>> \o SubSeq(q, MinOf(at, Len(q)) + 1, Len(q))

CurrentDrill == currentDrills[currentDrillIndex + 1]

\* A re-queue block that puts the copy at the cursor
Requeue_AtCursor(k) ==
  currentDrills' =
    IF currentMode = "srs"
      THEN Splice(currentDrills, currentDrillIndex, WrongDrill(CurrentDrill))
      ELSE currentDrills

\* The re-queue block of checkAnswer and checkVoiceAnswer
Requeue(k) ==
  currentDrills' =
    IF currentMode = "srs"
      THEN Splice(currentDrills,
                  InsertAt(currentDrillIndex, k, Len(currentDrills)),
                  WrongDrill(CurrentDrill))
      ELSE currentDrills

\* A cursor that moves two places
Advance_SkipOne(index) == index + 2

\* currentDrillIndex++
Advance(index) == index + 1

\* A nextDrill() that starts over past the end
NextDrillBody_Wraps ==
  /\ currentDrillIndex' = Advance(currentDrillIndex) % Len(currentDrills)
  /\ nextBtnShown' = FALSE
  /\ UNCHANGED drillActive

\* nextDrill(): past the end closeDrill(), else updateDrillDisplay()
NextDrillBody ==
  /\ currentDrillIndex' = Advance(currentDrillIndex)
  /\ IF currentDrillIndex' >= Len(currentDrills)
       THEN /\ drillActive' = FALSE
            /\ UNCHANGED nextBtnShown
       ELSE /\ nextBtnShown' = FALSE
            /\ UNCHANGED drillActive

\* checkAnswer() by the check button, or by Enter while nextBtn is hidden
CheckAnswer(correct, k) ==
  /\ drillActive
  /\ ~nextBtnShown
  /\ sessionTotal < MaxAttempts
  /\ sessionTotal' = sessionTotal + 1
  /\ IF correct
       THEN /\ sessionCorrect' = sessionCorrect + 1
            /\ ReviewCardStorage(CurrentDrill.id, GoodThreshold)
            /\ timers' = timers + 1
            /\ UNCHANGED <<currentDrills, nextBtnShown>>
       ELSE /\ Requeue(k)
            /\ nextBtnShown' = TRUE
            /\ UNCHANGED <<cards, totalReviews, stored, backups, sessionCorrect, timers>>
  /\ UNCHANGED <<drillsData, authVars, now, currentDrillIndex, currentMode, drillActive, retryMode,
                 classifyVars>>

\* checkVoiceAnswer(spoken, expected) on a recognition result
CheckVoiceAnswer(match, k) ==
  /\ drillActive
  /\ sessionTotal < MaxAttempts
  /\ sessionTotal' = sessionTotal + 1
  /\ IF match
       THEN /\ sessionCorrect' = sessionCorrect + 1
            /\ ReviewCardStorage(CurrentDrill.id, GoodThreshold)
            /\ timers' = timers + 1
            /\ UNCHANGED currentDrills
       ELSE /\ Requeue(k)
            /\ UNCHANGED <<cards, totalReviews, stored, backups, sessionCorrect, timers>>
  /\ UNCHANGED <<drillsData, authVars, now, currentDrillIndex, currentMode, drillActive, nextBtnShown,
                 retryMode, classifyVars>>

\* nextDrill() by the next button, or by Enter while nextBtn is shown
NextDrill ==
  /\ drillActive
  /\ nextBtnShown
  /\ NextDrillBody
  /\ UNCHANGED <<drillsData, authVars, cards, totalReviews, stored, backups, now, currentDrills,
                 sessionCorrect, sessionTotal, currentMode, timers, retryMode, classifyVars>>

\* skipDrill() by the skip button
SkipDrill ==
  /\ drillActive
  /\ NextDrillBody
  /\ UNCHANGED <<drillsData, authVars, cards, totalReviews, stored, backups, now, currentDrills,
                 sessionCorrect, sessionTotal, currentMode, timers, retryMode, classifyVars>>

\* A setTimeout(() => nextDrill(), ..) callback runs
AutoAdvance ==
  /\ timers > 0
  /\ timers' = timers - 1
  /\ NextDrillBody
  /\ UNCHANGED <<drillsData, authVars, cards, totalReviews, stored, backups, now, currentDrills,
                 sessionCorrect, sessionTotal, currentMode, retryMode, classifyVars>>

\* startSRSBtn is clicked in the SRS view, which the drill view replaces;
\* a run follows the first session started after the page is loaded
ClickStartSRS ==
  /\ ~drillActive
  /\ currentDrills = <<>>
  /\ StartSRSSession

DrillCatalogue == [i \in 1..MaxDrills |-> Drill(i, 1 + (i % 2), 100)]

InitDrill ==
  /\ \E n \in 1..MaxDrills : drillsData = SubSeq(DrillCatalogue, 1, n)
  /\ FreshStorage
  /\ now = 0
  /\ NoSession
  /\ NoCloud
  /\ NoClassification

NextDrillSession ==
  \/ ClickStartSRS
  \/ \E correct \in BOOLEAN, k \in RandomOffsets : CheckAnswer(correct, k)
  \/ \E match \in BOOLEAN, k \in RandomOffsets : CheckVoiceAnswer(match, k)
  \/ NextDrill
  \/ SkipDrill
  \/ AutoAdvance

SpecDrill == InitDrill /\ [][NextDrillSession]_vars

\* The learner keeps advancing: skipDrill stays available while the drill view is open
SpecDrillFair == SpecDrill /\ WF_vars(SkipDrill) /\ WF_vars(AutoAdvance)

----------------------------------------------------------------------------
(* Properties of the scheduler *)

\* The record of drill d before a grading: stored, or the defaults of a new card
Before(d) == IF d \in DOMAIN cards THEN cards[d] ELSE SRS_DEFAULTS

InReviewPhase(c) == c.state \in {"review", "mastered"}

\* C1: a grading with quality below 2 (Again) sets interval = 1 and
\* state = learning and adds exactly 1 to lapses, whatever the prior state
\* (new, learning, review or mastered, a mastered card of interval 200 included).
C1_AgainLapses ==
  [][\A d \in DrillIds, q \in Quality :
       (q < 2 /\ ReviewCard(d, q)) =>
          /\ cards'[d].interval = 1
          /\ cards'[d].state = "learning"
          /\ cards'[d].lapses = Before(d).lapses + 1]_vars

\* A stored card (a mastered card of interval 200 among them) lapsed on its second grading
C1_Witness ==
  \E d \in DOMAIN cards :
     /\ cards[d].state = "learning" /\ cards[d].interval = 1
     /\ cards[d].lapses = 1 /\ cards[d].reps = 2 /\ cards[d].lastReview = now
     /\ stored # <<>> /\ totalReviews = 2

\* C2: a grading with quality >= 2 (Good) takes a new card to learning with
\* interval 1 and a learning card to review with interval 3, and leaves the
\* ease as it was in both steps.
C2_GoodSteps ==
  [][\A d \in DrillIds, q \in Quality :
       (q >= 2 /\ ReviewCard(d, q)) =>
          /\ Before(d).state = "new" =>
               /\ cards'[d].state = "learning" /\ cards'[d].interval = 1
               /\ cards'[d].ease = Before(d).ease
          /\ Before(d).state = "learning" =>
               /\ cards'[d].state = "review" /\ cards'[d].interval = 3
               /\ cards'[d].ease = Before(d).ease]_vars

\* A learning card was graded Good: review, interval 3, ease untouched (below the floor)
C2_Witness ==
  \E d \in DOMAIN cards :
     /\ cards[d].state = "review" /\ cards[d].interval = 3
     /\ cards[d].ease = 120 /\ cards[d].lastReview = now /\ cards[d].reps >= 2

\* ease + (0.1 - (3-q)*(0.08 + (3-q)*0.02)), floored at 1.3, in hundredths
EaseAfter(ease, q) ==
  LET step == 10 - (3 - q) * (8 + (3 - q) * 2)
  IN  IF ease + step < 130 THEN 130 ELSE ease + step

\* round(interval * ease), ease in hundredths: the integer n with
\* n - 1/2 <= interval * ease / 100 < n + 1/2
IsRounded(n, interval, ease) ==
  /\ 200 * n - 100 <= 2 * interval * ease
  /\ 2 * interval * ease < 200 * n + 100

\* C3: a grading with quality q >= 2 of a card in state review or mastered sets
\* ease' = max(1.3, ease + (0.1 - (3-q)*(0.08 + (3-q)*0.02))) and
\* interval' = round(interval * ease'), and the state to mastered if
\* interval' > 180 and to review otherwise, also from mastered.
C3_GoodInReview ==
  [][\A d \in DrillIds, q \in Quality :
       (q >= 2 /\ ReviewCard(d, q) /\ InReviewPhase(Before(d))) =>
          /\ cards'[d].ease = EaseAfter(Before(d).ease, q)
          /\ IsRounded(cards'[d].interval, Before(d).interval, cards'[d].ease)
          /\ cards'[d].state = IF cards'[d].interval > 180 THEN "mastered" ELSE "review"]_vars

\* C4: every grading adds exactly 1 to reps, sets lastReview to the current
\* time and due to the current time plus the interval that grading computed.
C4_EveryGrading ==
  [][\A d \in DrillIds, q \in Quality :
       ReviewCard(d, q) =>
          /\ cards'[d].reps = Before(d).reps + 1
          /\ cards'[d].lastReview = now
          /\ cards'[d].due = now + cards'[d].interval]_vars

\* A grading on a later day changed the interval: due follows the new interval
C4_Witness ==
  \E d \in DOMAIN cards :
     /\ now > 0 /\ cards[d].lastReview = now
     /\ cards[d].interval = 3 /\ cards[d].due = now + 3 /\ cards[d].reps = 2

\* C5: from fresh storage, after any gradings: a new card has reps = 0, a
\* mastered card has interval > 180, and every card has ease >= 1.3 and
\* interval >= 1.
C5_CardInvariant ==
  \A d \in DOMAIN cards :
     /\ cards[d].state = "new" => cards[d].reps = 0
     /\ cards[d].state = "mastered" => cards[d].interval > 180
     /\ cards[d].ease >= 130
     /\ cards[d].interval >= 1

\* A card that lapsed was graded up to mastered within the run
C5_Witness ==
  /\ \E d \in DOMAIN cards : cards[d].state = "mastered" /\ cards[d].lapses >= 1
  /\ totalReviews = MaxReviews

IsMastered == \E d \in DOMAIN cards : cards[d].state = "mastered" /\ cards[d].interval > 180

MasteredOnlyAbove180 == \A d \in DOMAIN cards : cards[d].state = "mastered" => cards[d].interval > 180

StartsGrowing == \A d \in DOMAIN cards : cards[d].interval >= 2 \/ cards[d].ease >= 150

C7_GoodRaisesEase ==
  [][\A d \in DrillIds :
       (ReviewCard(d, 2) /\ InReviewPhase(Before(d))) =>
          cards'[d].ease > Before(d).ease]_vars

\* C7, amended: a grading with quality 2 of a card in state review or mastered
\* leaves its ease unchanged (the step is 0); an ease below 1.3 becomes 1.3.
C7_GoodKeepsEase ==
  [][\A d \in DrillIds :
       (ReviewCard(d, 2) /\ InReviewPhase(Before(d))) =>
          cards'[d].ease = (IF Before(d).ease < 130 THEN 130 ELSE Before(d).ease)]_vars

\* A review card of interval 3 was graded with quality 2: interval 8 at ease 2.5
C7_Witness ==
  \E d \in DOMAIN cards :
     /\ cards[d].state = "review" /\ cards[d].interval = 8
     /\ cards[d].ease = 250 /\ cards[d].reps >= 3 /\ cards[d].lastReview = now

----------------------------------------------------------------------------
(* Properties of the session queue *)

QueueIds(q) == {q[i].id : i \in 1..Len(q)}

PositionOf(id) == CHOOSE i \in 1..Len(drillsData) : drillsData[i].id = id

UnitOf(id) == drillsData[PositionOf(id)].unit

CommonalityOf(id) == drillsData[PositionOf(id)].commonality

\* A drill without a stored card counts as new
StateOf(id) == IF id \in DOMAIN cards THEN cards[id].state ELSE "new"

DueOf(id) == IF id \in DOMAIN cards THEN cards[id].due ELSE NoDate

\* The selection rule: new, or learning / review and due
Selected(id) ==
  \/ StateOf(id) = "new"
  \/ /\ StateOf(id) \in {"learning", "review"}
     /\ DueOf(id) # NoDate /\ DueOf(id) <= now

\* C8 as stated: the session holds only selected drills (new, or learning /
\* review with due <= now; never mastered, never not yet due), and every
\* selected drill is in it unless the session is full.
C8_SessionIsSelection ==
  [][StartSRSSession =>
       /\ \A id \in QueueIds(currentDrills') : Selected(id)
       /\ \A id \in DrillIds :
            (Selected(id) /\ id \notin QueueIds(currentDrills')) => Len(currentDrills') = 20]_vars

\* C8, amended: the same for the drills of units 1..12; a drill of a later
\* unit is never in the session.
C8_SessionIsSrsSelection ==
  [][StartSRSSession =>
       /\ \A id \in QueueIds(currentDrills') : UnitOf(id) <= 12 /\ Selected(id)
       /\ \A id \in DrillIds :
            (UnitOf(id) <= 12 /\ Selected(id) /\ id \notin QueueIds(currentDrills'))
               => Len(currentDrills') = 20]_vars

\* A session that is not full holds a due learning card and leaves out a due
\* mastered card, a card not yet due and a new drill of a later unit
C8_Witness ==
  /\ currentMode = "srs" /\ Len(currentDrills) < 20
  /\ \E i \in 1..Len(currentDrills) : currentDrills[i].srsState = "learning"
  /\ \E id \in DOMAIN cards :
       /\ cards[id].state = "mastered" /\ cards[id].due <= now
       /\ id \notin QueueIds(currentDrills)
  /\ \E id \in DOMAIN cards :
       /\ cards[id].state = "review" /\ cards[id].due > now
       /\ id \notin QueueIds(currentDrills)
  /\ \E id \in DrillIds : UnitOf(id) > 12 /\ StateOf(id) = "new"

IsNewEntry(e) == e.srsState = "new"

PenalisedScore(e) == e.commonality - (IF e.unit \in {6, 12, 18, 24} THEN 10 ELSE 0)

Candidates == {id \in DrillIds : UnitOf(id) <= 12 /\ Selected(id)}

ScoreOf(id) == CommonalityOf(id) - (IF UnitOf(id) \in {6, 12, 18, 24} THEN 10 ELSE 0)

\* y stands before x in the ordered candidate list: new before due, new by
\* falling score, due by rising due day, equal keys in catalogue order
Outranks(y, x) ==
  \/ StateOf(y) = "new" /\ StateOf(x) # "new"
  \/ /\ StateOf(y) = "new" /\ StateOf(x) = "new"
     /\ \/ ScoreOf(y) > ScoreOf(x)
        \/ ScoreOf(y) = ScoreOf(x) /\ PositionOf(y) < PositionOf(x)
  \/ /\ StateOf(y) # "new" /\ StateOf(x) # "new"
     /\ \/ DueOf(y) < DueOf(x)
        \/ DueOf(y) = DueOf(x) /\ PositionOf(y) < PositionOf(x)

\* C10: the built queue has at most 20 entries and is the first 20 of the
\* filtered, ordered candidate list: candidates only, each once, in order,
\* and a candidate left out is outranked by none of them when the queue is full
\* and is never left out otherwise.
C10_FirstCapCandidates ==
  [][StartSRSSession =>
       LET q == currentDrills'
       IN  /\ Len(q) <= 20
           /\ QueueIds(q) \subseteq Candidates
           /\ \A i, j \in 1..Len(q) : i < j => Outranks(q[i].id, q[j].id)
           /\ \A y \in Candidates \ QueueIds(q) :
                /\ Len(q) = 20
                /\ \A x \in QueueIds(q) : Outranks(x, y)]_vars

\* A full session that leaves a candidate out
C10_Witness ==
  /\ currentMode = "srs" /\ Len(currentDrills) = 20
  /\ \E id \in DrillIds :
       /\ UnitOf(id) <= 12 /\ Selected(id)
       /\ id \notin QueueIds(currentDrills)

----------------------------------------------------------------------------
(* Properties of the reinsertion of a missed drill *)

\* The step put one more entry into the queue of an open drill session
Reinsertion == drillActive /\ Len(currentDrills') = Len(currentDrills) + 1

\* The step put the copy of the current drill at position p (counted from 0)
InsertedAt(p) ==
  /\ p \in 0..Len(currentDrills)
  /\ currentDrills' = SubSeq(currentDrills, 1, p) \o <<WrongDrill(CurrentDrill)>>
                        \o SubSeq(currentDrills, p + 1, Len(currentDrills))

Missed ==
  /\ currentMode = "srs"
  /\ drillActive
  /\ sessionTotal' = sessionTotal + 1
  /\ sessionCorrect' = sessionCorrect

\* q without its entry at position p (counted from 0)
RemoveAt(q, p) == SubSeq(q, 1, p) \o SubSeq(q, p + 2, Len(q))

\* C12: a reinsertion makes the queue one entry longer and removes or reorders
\* nothing: taking one entry behind the cursor out of the new queue gives the
\* old queue, and the entries up to the cursor keep their positions.
C12_InsertsWithoutMoving ==
  [][Missed =>
       /\ Len(currentDrills') = Len(currentDrills) + 1
       /\ \E p \in (currentDrillIndex + 1)..Len(currentDrills) :
            RemoveAt(currentDrills', p) = currentDrills
       /\ \A i \in 0..currentDrillIndex : currentDrills'[i + 1] = currentDrills[i + 1]]_vars

\* The first drill of a longer session was missed: its copy lies between
\* drills that have not been reached
C12_Witness ==
  /\ currentMode = "srs"
  /\ nextBtnShown
  /\ currentDrillIndex = 0
  /\ Len(currentDrills) = Len(drillsData) + 1
  /\ Len(currentDrills) > 5
  /\ currentDrills[5] = WrongDrill(currentDrills[1])

\* C13: after a reinsertion the copy stands at a position p of the old queue's
\* range 0..length, so the queue has no gap, and every such p lies behind the
\* cursor: currentIndex < p <= length of the queue before.
C13_BehindCursorWithinQueue ==
  [][Missed =>
       /\ \E p \in 0..Len(currentDrills) : InsertedAt(p)
       /\ \A p \in 0..(Len(currentDrills') - 1) :
            (/\ currentDrills'[p + 1] = WrongDrill(CurrentDrill)
             /\ RemoveAt(currentDrills', p) = currentDrills)
              => currentDrillIndex < p /\ p <= Len(currentDrills)]_vars

\* The second drill of a longer session was missed and its copy stands five
\* places behind it
C13_Witness ==
  /\ currentMode = "srs"
  /\ nextBtnShown
  /\ currentDrillIndex = 1
  /\ Len(currentDrills) >= 7
  /\ currentDrills[7] = WrongDrill(currentDrills[2])

\* A copy of drill d made at its w-th miss waits behind the cursor
CopyAhead(d, w) ==
  /\ drillActive
  /\ \E p \in (currentDrillIndex + 2)..Len(currentDrills) :
       currentDrills[p].id = d /\ WrongCount(currentDrills[p]) = w

\* A copy of drill d made at its w-th miss is the drill on display
CopyCurrent(d, w) ==
  /\ drillActive
  /\ currentDrillIndex < Len(currentDrills)
  /\ CurrentDrill.id = d
  /\ WrongCount(CurrentDrill) = w

\* C14: a learner who keeps advancing gets every re-inserted copy of a missed
\* drill presented in the same session: while a copy waits behind the cursor
\* the session does not end, and the copy becomes the current drill.
C14_MissedDrillComesBack ==
  \A d \in 1..MaxDrills, w \in 1..MaxAttempts : CopyAhead(d, w) ~> CopyCurrent(d, w)

\* The copy of a missed drill is on display
C14_Witness ==
  /\ currentMode = "srs"
  /\ drillActive
  /\ currentDrillIndex < Len(currentDrills)
  /\ WrongCount(CurrentDrill) = 1
  /\ sessionTotal >= 1

----------------------------------------------------------------------------
(* Properties of grading within a session *)

\* The step counted an attempt on the current drill
Attempt == drillActive /\ sessionTotal' = sessionTotal + 1

\* C15: every attempt that is counted, typed or spoken, is graded: the
\* ReviewState of the attempted drill gets one more repetition, and an attempt
\* that is not correct records a lapse (lapses + 1, interval 1, state learning).
C15_EveryAttemptGraded ==
  [][Attempt =>
       LET d == CurrentDrill.id
       IN  /\ d \in DOMAIN cards'
           /\ cards'[d].reps = Before(d).reps + 1
           /\ sessionCorrect' = sessionCorrect =>
                /\ cards'[d].lapses = Before(d).lapses + 1
                /\ cards'[d].interval = 1
                /\ cards'[d].state = "learning"]_vars

\* C16: a record exists only for a drill that has been graded, in Storage.data
\* and in the persisted document alike: building a session creates none, so
\* every record has reps >= 1.
C16_RecordsOnlyByGrading ==
  /\ \A d \in DOMAIN cards : cards[d].reps >= 1
  /\ stored # <<>> => \A d \in DOMAIN stored[1].cards : stored[1].cards[d].reps >= 1

----------------------------------------------------------------------------
(* Error classifier FSI_Error.  A text is a sequence of characters, each a  *)
(* string of one character; a token is a text without white space.  Chars   *)
(* spells out the words the tagger's and the detectors' tables hold and the *)
(* words of the texts that are classified.                                  *)

\* The spelling of a word
Chars ==
  ("le" :> <<"l", "e">>) @@
  ("la" :> <<"l", "a">>) @@
  ("les" :> <<"l", "e", "s">>) @@
  ("l" :> <<"l">>) @@
  ("un" :> <<"u", "n">>) @@
  ("une" :> <<"u", "n", "e">>) @@
  ("des" :> <<"d", "e", "s">>) @@
  ("du" :> <<"d", "u">>) @@
  ("de" :> <<"d", "e">>) @@
  ("au" :> <<"a", "u">>) @@
  ("aux" :> <<"a", "u", "x">>) @@
  ("je" :> <<"j", "e">>) @@
  ("tu" :> <<"t", "u">>) @@
  ("il" :> <<"i", "l">>) @@
  ("elle" :> <<"e", "l", "l", "e">>) @@
  ("on" :> <<"o", "n">>) @@
  ("nous" :> <<"n", "o", "u", "s">>) @@
  ("vous" :> <<"v", "o", "u", "s">>) @@
  ("ils" :> <<"i", "l", "s">>) @@
  ("elles" :> <<"e", "l", "l", "e", "s">>) @@
  ("me" :> <<"m", "e">>) @@
  ("te" :> <<"t", "e">>) @@
  ("se" :> <<"s", "e">>) @@
  ("lui" :> <<"l", "u", "i">>) @@
  ("leur" :> <<"l", "e", "u", "r">>) @@
  ("y" :> <<"y">>) @@
  ("en" :> <<"e", "n">>) @@
  ("moi" :> <<"m", "o", "i">>) @@
  ("toi" :> <<"t", "o", "i">>) @@
  ("suis" :> <<"s", "u", "i", "s">>) @@
  ("es" :> <<"e", "s">>) @@
  ("est" :> <<"e", "s", "t">>) @@
  ("sommes" :> <<"s", "o", "m", "m", "e", "s">>) @@
  ("êtes" :> <<"ê", "t", "e", "s">>) @@
  ("sont" :> <<"s", "o", "n", "t">>) @@
  ("étais" :> <<"é", "t", "a", "i", "s">>) @@
  ("était" :> <<"é", "t", "a", "i", "t">>) @@
  ("été" :> <<"é", "t", "é">>) @@
  ("ai" :> <<"a", "i">>) @@
  ("as" :> <<"a", "s">>) @@
  ("a" :> <<"a">>) @@
  ("avons" :> <<"a", "v", "o", "n", "s">>) @@
  ("avez" :> <<"a", "v", "e", "z">>) @@
  ("ont" :> <<"o", "n", "t">>) @@
  ("avais" :> <<"a", "v", "a", "i", "s">>) @@
  ("avait" :> <<"a", "v", "a", "i", "t">>) @@
  ("eu" :> <<"e", "u">>) @@
  ("vais" :> <<"v", "a", "i", "s">>) @@
  ("vas" :> <<"v", "a", "s">>) @@
  ("va" :> <<"v", "a">>) @@
  ("allons" :> <<"a", "l", "l", "o", "n", "s">>) @@
  ("allez" :> <<"a", "l", "l", "e", "z">>) @@
  ("vont" :> <<"v", "o", "n", "t">>) @@
  ("allé" :> <<"a", "l", "l", "é">>) @@
  ("fais" :> <<"f", "a", "i", "s">>) @@
  ("fait" :> <<"f", "a", "i", "t">>) @@
  ("faisons" :> <<"f", "a", "i", "s", "o", "n", "s">>) @@
  ("faites" :> <<"f", "a", "i", "t", "e", "s">>) @@
  ("font" :> <<"f", "o", "n", "t">>) @@
  ("er" :> <<"e", "r">>) @@
  ("ir" :> <<"i", "r">>) @@
  ("re" :> <<"r", "e">>) @@
  ("é" :> <<"é">>) @@
  ("i" :> <<"i">>) @@
  ("u" :> <<"u">>) @@
  ("ant" :> <<"a", "n", "t">>) @@
  ("ons" :> <<"o", "n", "s">>) @@
  ("ez" :> <<"e", "z">>) @@
  ("ent" :> <<"e", "n", "t">>) @@
  ("ais" :> <<"a", "i", "s">>) @@
  ("ait" :> <<"a", "i", "t">>) @@
  ("aient" :> <<"a", "i", "e", "n", "t">>) @@
  ("erai" :> <<"e", "r", "a", "i">>) @@
  ("eras" :> <<"e", "r", "a", "s">>) @@
  ("era" :> <<"e", "r", "a">>) @@
  ("à" :> <<"à">>) @@
  ("dans" :> <<"d", "a", "n", "s">>) @@
  ("sur" :> <<"s", "u", "r">>) @@
  ("sous" :> <<"s", "o", "u", "s">>) @@
  ("avec" :> <<"a", "v", "e", "c">>) @@
  ("pour" :> <<"p", "o", "u", "r">>) @@
  ("par" :> <<"p", "a", "r">>) @@
  ("chez" :> <<"c", "h", "e", "z">>) @@
  ("vers" :> <<"v", "e", "r", "s">>) @@
  ("et" :> <<"e", "t">>) @@
  ("ou" :> <<"o", "u">>) @@
  ("mais" :> <<"m", "a", "i", "s">>) @@
  ("donc" :> <<"d", "o", "n", "c">>) @@
  ("car" :> <<"c", "a", "r">>) @@
  ("ni" :> <<"n", "i">>) @@
  ("que" :> <<"q", "u", "e">>) @@
  ("qui" :> <<"q", "u", "i">>) @@
  ("quand" :> <<"q", "u", "a", "n", "d">>) @@
  ("si" :> <<"s", "i">>) @@
  ("très" :> <<"t", "r", "è", "s">>) @@
  ("bien" :> <<"b", "i", "e", "n">>) @@
  ("mal" :> <<"m", "a", "l">>) @@
  ("peu" :> <<"p", "e", "u">>) @@
  ("beaucoup" :> <<"b", "e", "a", "u", "c", "o", "u", "p">>) @@
  ("trop" :> <<"t", "r", "o", "p">>) @@
  ("assez" :> <<"a", "s", "s", "e", "z">>) @@
  ("plus" :> <<"p", "l", "u", "s">>) @@
  ("moins" :> <<"m", "o", "i", "n", "s">>) @@
  ("toujours" :> <<"t", "o", "u", "j", "o", "u", "r", "s">>) @@
  ("jamais" :> <<"j", "a", "m", "a", "i", "s">>) @@
  ("souvent" :> <<"s", "o", "u", "v", "e", "n", "t">>) @@
  ("parfois" :> <<"p", "a", "r", "f", "o", "i", "s">>) @@
  ("ici" :> <<"i", "c", "i">>) @@
  ("là" :> <<"l", "à">>) @@
  ("où" :> <<"o", "ù">>) @@
  ("comment" :> <<"c", "o", "m", "m", "e", "n", "t">>) @@
  ("pourquoi" :> <<"p", "o", "u", "r", "q", "u", "o", "i">>) @@
  ("ne" :> <<"n", "e">>) @@
  ("pas" :> <<"p", "a", "s">>) @@
  ("non" :> <<"n", "o", "n">>) @@
  ("oui" :> <<"o", "u", "i">>) @@
  ("." :> <<".">>) @@
  ("," :> <<",">>) @@
  ("!" :> <<"!">>) @@
  ("?" :> <<"?">>) @@
  (";" :> <<";">>) @@
  (":" :> <<":">>) @@
  ("'" :> <<"'">>) @@
  ("\"" :> <<"\"">>) @@
  ("deux" :> <<"d", "e", "u", "x">>) @@
  ("trois" :> <<"t", "r", "o", "i", "s">>) @@
  ("quatre" :> <<"q", "u", "a", "t", "r", "e">>) @@
  ("cinq" :> <<"c", "i", "n", "q">>) @@
  ("six" :> <<"s", "i", "x">>) @@
  ("sept" :> <<"s", "e", "p", "t">>) @@
  ("huit" :> <<"h", "u", "i", "t">>) @@
  ("neuf" :> <<"n", "e", "u", "f">>) @@
  ("dix" :> <<"d", "i", "x">>) @@
  ("vingt" :> <<"v", "i", "n", "g", "t">>) @@
  ("cent" :> <<"c", "e", "n", "t">>) @@
  ("mille" :> <<"m", "i", "l", "l", "e">>) @@
  ("eux" :> <<"e", "u", "x">>) @@
  ("euse" :> <<"e", "u", "s", "e">>) @@
  ("if" :> <<"i", "f">>) @@
  ("ive" :> <<"i", "v", "e">>) @@
  ("al" :> <<"a", "l">>) @@
  ("ale" :> <<"a", "l", "e">>) @@
  ("el" :> <<"e", "l">>) @@
  ("ien" :> <<"i", "e", "n">>) @@
  ("ienne" :> <<"i", "e", "n", "n", "e">>) @@
  ("ier" :> <<"i", "e", "r">>) @@
  ("ière" :> <<"i", "è", "r", "e">>) @@
  ("ique" :> <<"i", "q", "u", "e">>) @@
  ("able" :> <<"a", "b", "l", "e">>) @@
  ("ible" :> <<"i", "b", "l", "e">>) @@
  ("beau" :> <<"b", "e", "a", "u">>) @@
  ("belle" :> <<"b", "e", "l", "l", "e">>) @@
  ("joli" :> <<"j", "o", "l", "i">>) @@
  ("jolie" :> <<"j", "o", "l", "i", "e">>) @@
  ("vieux" :> <<"v", "i", "e", "u", "x">>) @@
  ("vieille" :> <<"v", "i", "e", "i", "l", "l", "e">>) @@
  ("jeune" :> <<"j", "e", "u", "n", "e">>) @@
  ("nouveau" :> <<"n", "o", "u", "v", "e", "a", "u">>) @@
  ("nouvelle" :> <<"n", "o", "u", "v", "e", "l", "l", "e">>) @@
  ("bon" :> <<"b", "o", "n">>) @@
  ("bonne" :> <<"b", "o", "n", "n", "e">>) @@
  ("mauvais" :> <<"m", "a", "u", "v", "a", "i", "s">>) @@
  ("mauvaise" :> <<"m", "a", "u", "v", "a", "i", "s", "e">>) @@
  ("grand" :> <<"g", "r", "a", "n", "d">>) @@
  ("grande" :> <<"g", "r", "a", "n", "d", "e">>) @@
  ("petit" :> <<"p", "e", "t", "i", "t">>) @@
  ("petite" :> <<"p", "e", "t", "i", "t", "e">>) @@
  ("gros" :> <<"g", "r", "o", "s">>) @@
  ("grosse" :> <<"g", "r", "o", "s", "s", "e">>) @@
  ("long" :> <<"l", "o", "n", "g">>) @@
  ("longue" :> <<"l", "o", "n", "g", "u", "e">>) @@
  ("premier" :> <<"p", "r", "e", "m", "i", "e", "r">>) @@
  ("première" :> <<"p", "r", "e", "m", "i", "è", "r", "e">>) @@
  ("dernier" :> <<"d", "e", "r", "n", "i", "e", "r">>) @@
  ("dernière" :> <<"d", "e", "r", "n", "i", "è", "r", "e">>) @@
  ("son" :> <<"s", "o", "n">>) @@
  ("sa" :> <<"s", "a">>) @@
  ("mon" :> <<"m", "o", "n">>) @@
  ("ma" :> <<"m", "a">>) @@
  ("ton" :> <<"t", "o", "n">>) @@
  ("ta" :> <<"t", "a">>) @@
  ("ce" :> <<"c", "e">>) @@
  ("cette" :> <<"c", "e", "t", "t", "e">>) @@
  ("à la" :> <<"à", " ", "l", "a">>) @@
  ("de la" :> <<"d", "e", " ", "l", "a">>) @@
  ("c'est" :> <<"c", "'", "e", "s", "t">>) @@
  ("il est" :> <<"i", "l", " ", "e", "s", "t">>) @@
  ("savoir" :> <<"s", "a", "v", "o", "i", "r">>) @@
  ("connaître" :> <<"c", "o", "n", "n", "a", "î", "t", "r", "e">>) @@
  ("être" :> <<"ê", "t", "r", "e">>) @@
  ("avoir" :> <<"a", "v", "o", "i", "r">>) @@
  ("chat" :> <<"c", "h", "a", "t">>) @@
  ("Le" :> <<"L", "e">>) @@
  ("Je" :> <<"J", "e">>) @@
  ("Chat" :> <<"C", "h", "a", "t">>) @@
  ("grise" :> <<"g", "r", "i", "s", "e">>) @@
  ("gris" :> <<"g", "r", "i", "s">>) @@
  ("manges" :> <<"m", "a", "n", "g", "e", "s">>) @@
  ("mange" :> <<"m", "a", "n", "g", "e">>) @@
  ("Tu" :> <<"T", "u">>) @@
  ("La" :> <<"L", "a">>) @@
  ("ses" :> <<"s", "e", "s">>)

\* String.prototype.toLowerCase, on the letters of the model
LowerCaseOf ==
  ("A" :> "a") @@ ("B" :> "b") @@ ("C" :> "c") @@ ("D" :> "d") @@ ("E" :> "e") @@
  ("F" :> "f") @@ ("G" :> "g") @@ ("H" :> "h") @@ ("I" :> "i") @@ ("J" :> "j") @@
  ("K" :> "k") @@ ("L" :> "l") @@ ("M" :> "m") @@ ("N" :> "n") @@ ("O" :> "o") @@
  ("P" :> "p") @@ ("Q" :> "q") @@ ("R" :> "r") @@ ("S" :> "s") @@ ("T" :> "t") @@
  ("U" :> "u") @@ ("V" :> "v") @@ ("W" :> "w") @@ ("X" :> "x") @@ ("Y" :> "y") @@
  ("Z" :> "z") @@ ("À" :> "à") @@ ("Â" :> "â") @@ ("Ç" :> "ç") @@ ("É" :> "é") @@
  ("È" :> "è") @@ ("Ê" :> "ê") @@ ("Ë" :> "ë") @@ ("Î" :> "î") @@ ("Ï" :> "ï") @@
  ("Ô" :> "ô") @@ ("Ù" :> "ù") @@ ("Û" :> "û") @@ ("Ü" :> "ü")

toLowerCase(text) ==
  [i \in 1..Len(text) |->
     IF text[i] \in DOMAIN LowerCaseOf THEN LowerCaseOf[text[i]] ELSE text[i]]

\* The base letter NFD puts before the combining mark it then deletes
BaseLetterOf ==
  ("à" :> "a") @@ ("â" :> "a") @@ ("ç" :> "c") @@ ("é" :> "e") @@ ("è" :> "e") @@
  ("ê" :> "e") @@ ("ë" :> "e") @@ ("î" :> "i") @@ ("ï" :> "i") @@ ("ô" :> "o") @@
  ("ù" :> "u") @@ ("û" :> "u") @@ ("ü" :> "u") @@
  ("À" :> "A") @@ ("Â" :> "A") @@ ("Ç" :> "C") @@ ("É" :> "E") @@ ("È" :> "E") @@
  ("Ê" :> "E") @@ ("Ë" :> "E") @@ ("Î" :> "I") @@ ("Ï" :> "I") @@ ("Ô" :> "O") @@
  ("Ù" :> "U") @@ ("Û" :> "U") @@ ("Ü" :> "U")

\* text.normalize('NFD') with the combining marks U+0300..U+036F deleted
stripAccents(text) ==
  [i \in 1..Len(text) |->
     IF text[i] \in DOMAIN BaseLetterOf THEN BaseLetterOf[text[i]] ELSE text[i]]

\* \s of the regular expressions and of trim, on the characters of the model
WhiteSpace == {" ", "\t"}

\* [.,!?;:'"«»] of normalize
StrippedPunctuation == {".", ",", "!", "?", ";", ":", "'", "\"", "«", "»"}

\* [.,!?;:] of tokenize
SpacedPunctuation == {".", ",", "!", "?", ";", ":"}

\* [''] of tokenize
Apostrophes == {"'"}

RECURSIVE Flatten(_)
Flatten(texts) ==
  IF texts = <<>> THEN <<>> ELSE Head(texts) \o Flatten(Tail(texts))

\* text.replace(/-/g, ' ')
HyphensToSpaces(text) ==
  [i \in 1..Len(text) |-> IF text[i] = "-" THEN " " ELSE text[i]]

\* text.replace(/[.,!?;:'"«»]/g, '')
StripPunctuation(text) ==
  LET kept(c) == c \notin StrippedPunctuation IN SelectSeq(text, kept)

RECURSIVE TrimStart(_)
TrimStart(text) ==
  IF text # <<>> /\ Head(text) \in WhiteSpace THEN TrimStart(Tail(text)) ELSE text

RECURSIVE TrimEnd(_)
TrimEnd(text) ==
  IF text # <<>> /\ text[Len(text)] \in WhiteSpace
    THEN TrimEnd(SubSeq(text, 1, Len(text) - 1))
    ELSE text

\* String.prototype.trim
trim(text) == TrimEnd(TrimStart(text))

\* text.replace(/\s+/g, ' ')
RECURSIVE CollapseSpaces(_)
CollapseSpaces(text) ==
  IF text = <<>> THEN <<>>
  ELSE IF Head(text) \in WhiteSpace
    THEN <<" ">> \o CollapseSpaces(TrimStart(text))
    ELSE <<Head(text)>> \o CollapseSpaces(Tail(text))

\* A normalisation that keeps the case of the letters
normalize_KeepCase(text) ==
  CollapseSpaces(trim(StripPunctuation(HyphensToSpaces(text))))

\* A normalisation that trims before it takes the punctuation out
normalize_TrimFirst(text) ==
  CollapseSpaces(StripPunctuation(trim(HyphensToSpaces(toLowerCase(text)))))

\* normalize(text): lower case, hyphens to spaces, punctuation out, trimmed,
\* runs of white space to one space
normalize(text) ==
  CollapseSpaces(trim(StripPunctuation(HyphensToSpaces(toLowerCase(text)))))

\* text.replace(/([.,!?;:])/g, ' $1 ').replace(/([''])/g, "$1 ")
PadPunctuation(text) ==
  Flatten([i \in 1..Len(text) |->
             IF text[i] \in SpacedPunctuation THEN <<" ", text[i], " ">>
             ELSE IF text[i] \in Apostrophes THEN <<text[i], " ">>
             ELSE <<text[i]>>])

\* text.split(' '): the pieces between single spaces, empty pieces included
RECURSIVE SplitAtSpaces(_, _)
SplitAtSpaces(text, piece) ==
  IF text = <<>> THEN <<piece>>
  ELSE IF Head(text) = " " THEN <<piece>> \o SplitAtSpaces(Tail(text), <<>>)
  ELSE SplitAtSpaces(Tail(text), Append(piece, Head(text)))

\* tokenize(text)
tokenize(text) ==
  LET nonEmpty(t) == Len(t) > 0
  IN  SelectSeq(SplitAtSpaces(trim(CollapseSpaces(PadPunctuation(text))), <<>>), nonEmpty)

\* Row i of the matrix of levenshtein, filled from left to right: cur holds
\* matrix[i][0..j-1], prev is matrix[i-1]
RECURSIVE FillRow(_, _, _, _)
FillRow(a, c, prev, cur) ==
  IF Len(cur) = Len(a) + 1 THEN cur
  ELSE LET j == Len(cur)
       IN  FillRow(a, c, prev,
                   Append(cur,
                          IF c = a[j] THEN prev[j]
                          ELSE MinOf(prev[j] + 1, MinOf(cur[j] + 1, prev[j + 1] + 1))))

\* matrix[i], as a sequence that holds matrix[i][j] at index j + 1
RECURSIVE LevRow(_, _, _)
LevRow(a, b, i) ==
  IF i = 0 THEN [j \in 1..(Len(a) + 1) |-> j - 1]
  ELSE FillRow(a, b[i], LevRow(a, b, i - 1), <<i>>)

\* levenshtein(a, b): unit-cost edit distance
levenshtein(a, b) == LevRow(a, b, Len(b))[Len(a) + 1]

\* The tables of simplePOS
Articles == {"le", "la", "les", "l", "un", "une", "des", "du", "de", "au", "aux"}

Pronouns ==
  {"je", "tu", "il", "elle", "on", "nous", "vous", "ils", "elles",
   "me", "te", "se", "lui", "leur", "y", "en", "moi", "toi"}

CommonVerbs ==
  {"suis", "es", "est", "sommes", "êtes", "sont", "étais", "était", "été",
   "ai", "as", "a", "avons", "avez", "ont", "avais", "avait", "eu",
   "vais", "vas", "va", "allons", "allez", "vont", "allé",
   "fais", "fait", "faisons", "faites", "font"}

VerbEndings ==
  {"er", "ir", "re", "é", "i", "u", "ant", "ons", "ez", "ent", "ais", "ait",
   "aient", "ai", "as", "a", "erai", "eras", "era"}

Prepositions ==
  {"à", "de", "en", "dans", "sur", "sous", "avec", "pour", "par", "chez", "vers"}

Conjunctions == {"et", "ou", "mais", "donc", "car", "ni", "que", "qui", "quand", "si"}

Adverbs ==
  {"très", "bien", "mal", "peu", "beaucoup", "trop", "assez", "plus", "moins",
   "toujours", "jamais", "souvent", "parfois", "ici", "là", "où", "comment",
   "pourquoi", "ne", "pas", "non", "oui"}

PunctuationMarks == {".", ",", "!", "?", ";", ":", "'", "\""}

NumberWords ==
  {"un", "deux", "trois", "quatre", "cinq", "six", "sept",
   "huit", "neuf", "dix", "vingt", "cent", "mille"}

AdjectiveEndings ==
  {"eux", "euse", "if", "ive", "al", "ale", "el", "elle", "ien", "ienne",
   "ier", "ière", "ique", "able", "ible"}

Digits == {"0", "1", "2", "3", "4", "5", "6", "7", "8", "9"}

\* table.includes(w)
InTable(w, table) == \E s \in table : Chars[s] = w

\* w.endsWith(ending)
EndsWith(w, ending) ==
  /\ Len(ending) <= Len(w)
  /\ SubSeq(w, Len(w) - Len(ending) + 1, Len(w)) = ending

\* w.match(/(e1|e2|..)$/)
HasEnding(w, endings) == \E s \in endings : EndsWith(w, Chars[s])

\* w.match(/^\d+$/)
IsNumeral(w) == Len(w) > 0 /\ \A i \in 1..Len(w) : w[i] \in Digits

\* A tagger that looks at the closed-class tables before the verb endings
simplePOS_TablesFirst(word) ==
  LET w == toLowerCase(word)
  IN  IF InTable(w, Articles) THEN "DET"
      ELSE IF InTable(w, Pronouns) THEN "PRON"
      ELSE IF InTable(w, CommonVerbs) THEN "VERB"
      ELSE IF InTable(w, Prepositions) THEN "ADP"
      ELSE IF InTable(w, Conjunctions) THEN "CONJ"
      ELSE IF InTable(w, Adverbs) THEN "ADV"
      ELSE IF InTable(w, PunctuationMarks) THEN "PUNCT"
      ELSE IF HasEnding(w, VerbEndings) THEN "VERB"
      ELSE IF IsNumeral(w) \/ InTable(w, NumberWords) THEN "NUM"
      ELSE IF HasEnding(w, AdjectiveEndings) THEN "ADJ"
      ELSE "NOUN"

\* simplePOS(word)
simplePOS(word) ==
  LET w == toLowerCase(word)
  IN  IF InTable(w, Articles) THEN "DET"
      ELSE IF InTable(w, Pronouns) THEN "PRON"
      ELSE IF InTable(w, CommonVerbs) THEN "VERB"
      ELSE IF HasEnding(w, VerbEndings) THEN "VERB"
      ELSE IF InTable(w, Prepositions) THEN "ADP"
      ELSE IF InTable(w, Conjunctions) THEN "CONJ"
      ELSE IF InTable(w, Adverbs) THEN "ADV"
      ELSE IF InTable(w, PunctuationMarks) THEN "PUNCT"
      ELSE IF IsNumeral(w) \/ InTable(w, NumberWords) THEN "NUM"
      ELSE IF HasEnding(w, AdjectiveEndings) THEN "ADJ"
      ELSE "NOUN"

IsPunct(t) == simplePOS(t) = "PUNCT"

NotPunct(t) == ~IsPunct(t)

\* Fields an error object does not have
NoPosition == -1
NoText == <<>>
NoName == "undefined"

\* An error object
Error(type, subtype, position, got, expectedWord, feedback, drillLink) ==
  [type |-> type, subtype |-> subtype, position |-> position, got |-> got,
   expected |-> expectedWord, feedback |-> feedback, drillLink |-> drillLink]

\* The token of expectedTokens from index j on that is closer to w than best,
\* the first one of the least distance
RECURSIVE Closest(_, _, _, _)
Closest(w, expectedTokens, j, best) ==
  IF j > Len(expectedTokens) THEN best
  ELSE LET dist == levenshtein(toLowerCase(w), toLowerCase(expectedTokens[j]))
       IN  Closest(w, expectedTokens, j + 1,
                   IF best.closest = NoText \/ dist < best.minDist
                     THEN [minDist |-> dist, closest |-> expectedTokens[j]]
                     ELSE best)

\* minDist = Infinity, closest = null
NoClosest == [minDist |-> 0, closest |-> NoText]

\* The errors checkSpelling pushes for the user token at index i (from 1)
SpellingErrorsAt(userTokens, expectedTokens, i) ==
  LET userWord == userTokens[i]
      best == Closest(userWord, expectedTokens, 1, NoClosest)
  IN  IF IsPunct(userWord) THEN <<>>
      ELSE IF best.closest # NoText /\ best.minDist > 0 /\ best.minDist <= 2
        THEN IF stripAccents(userWord) = stripAccents(best.closest)
               THEN <<Error("spelling", "accent", i - 1, userWord, best.closest,
                            <<"Accent error", userWord, best.closest>>, NoName)>>
               ELSE <<Error("spelling", "typo", i - 1, userWord, best.closest,
                            <<"Spelling", userWord, best.closest>>, NoName)>>
      ELSE <<>>

\* checkSpelling(userTokens, expectedTokens)
checkSpelling(userTokens, expectedTokens) ==
  Flatten([i \in 1..Len(userTokens) |-> SpellingErrorsAt(userTokens, expectedTokens, i)])

\* tokens.map(t => t.toLowerCase()).filter(t => this.simplePOS(t) !== 'PUNCT')
Words(tokens) ==
  SelectSeq([i \in 1..Len(tokens) |-> toLowerCase(tokens[i])], NotPunct)

Members(s) == {s[i] : i \in 1..Len(s)}

\* ws.filter(w => !set.has(w))
NotIn(ws, set) == LET absent(w) == w \notin set IN SelectSeq(ws, absent)

\* pos.toLowerCase()
LowerTag ==
  ("DET" :> "det") @@ ("PRON" :> "pron") @@ ("VERB" :> "verb") @@ ("ADP" :> "adp") @@
  ("CONJ" :> "conj") @@ ("ADV" :> "adv") @@ ("PUNCT" :> "punct") @@ ("NUM" :> "num") @@
  ("ADJ" :> "adj") @@ ("NOUN" :> "noun")

MissingError(word) ==
  Error("missing", LowerTag[simplePOS(word)], NoPosition, NoText, word,
        <<"Missing", word>>, NoName)

ExtraError(word) ==
  Error("extra", LowerTag[simplePOS(word)], NoPosition, word, NoText,
        <<"Extra word", word>>, NoName)

\* The errors of the agreement loop for the user tokens at indices i, i + 1 (from 1)
AgreementErrorsAt(userTokens, userPOS, i) ==
  LET pronoun == toLowerCase(userTokens[i])
      verb == toLowerCase(userTokens[i + 1])
  IN  IF userPOS[i] = "PRON" /\ userPOS[i + 1] = "VERB"
        THEN (IF pronoun = Chars["je"] /\ EndsWith(verb, Chars["es"])
                THEN <<Error("grammar", "verb_conjugation", i, userTokens[i + 1], NoText,
                             <<"With je, use 1st person singular">>, "verb_conjugation")>>
                ELSE <<>>)
             \o
             (IF pronoun = Chars["tu"] /\ EndsWith(verb, Chars["e"])
                   /\ ~EndsWith(verb, Chars["es"])
                THEN <<Error("grammar", "verb_conjugation", i, userTokens[i + 1], NoText,
                             <<"With tu, use 2nd person singular">>, "verb_conjugation")>>
                ELSE <<>>)
        ELSE <<>>

\* checkGrammar(userTokens, expectedTokens, userPOS, expectedPOS)
checkGrammar(userTokens, expectedTokens, userPOS, expectedPOS) ==
  LET userWords == Words(userTokens)
      expectedWords == Words(expectedTokens)
      missingWords == NotIn(expectedWords, Members(userWords))
      extraWords == NotIn(userWords, Members(expectedWords))
  IN  [i \in 1..Len(missingWords) |-> MissingError(missingWords[i])]
        \o [i \in 1..Len(extraWords) |-> ExtraError(extraWords[i])]
        \o Flatten([i \in 1..(Len(userTokens) - 1) |->
                      AgreementErrorsAt(userTokens, userPOS, i)])

\* The BANGS adjectives, which stand before the noun
Bangs ==
  {"beau", "belle", "joli", "jolie", "vieux", "vieille", "jeune", "nouveau", "nouvelle",
   "bon", "bonne", "mauvais", "mauvaise", "grand", "grande", "petit", "petite",
   "gros", "grosse", "long", "longue", "premier", "première", "dernier", "dernière"}

\* A check that wants one more expected word behind the pair
TranspositionAt_Shifted(userNorm, expNorm, i) ==
  IF i + 2 <= Len(expNorm) /\ userNorm[i] = expNorm[i + 1] /\ userNorm[i + 1] = expNorm[i]
    THEN <<Error("word_order", NoName, i - 1, NoText, NoText,
                 <<"Word order", userNorm[i + 1], userNorm[i]>>, "word_order")>>
    ELSE <<>>

\* The transposition pushed for the words at indices i, i + 1 (from 1)
TranspositionAt(userNorm, expNorm, i) ==
  IF i + 1 <= Len(expNorm) /\ userNorm[i] = expNorm[i + 1] /\ userNorm[i + 1] = expNorm[i]
    THEN <<Error("word_order", NoName, i - 1, NoText, NoText,
                 <<"Word order", userNorm[i + 1], userNorm[i]>>, "word_order")>>
    ELSE <<>>

\* The adjective placement pushed for the words at indices i, i + 1 (from 1)
PlacementAt(userNorm, i) ==
  IF simplePOS(userNorm[i]) = "ADJ" /\ simplePOS(userNorm[i + 1]) = "NOUN"
       /\ ~InTable(userNorm[i], Bangs)
    THEN <<Error("word_order", "adjective_placement", i - 1,
                 userNorm[i] \o <<" ">> \o userNorm[i + 1], NoText,
                 <<"Adjective after noun", userNorm[i + 1], userNorm[i]>>,
                 "adjective_placement")>>
    ELSE <<>>

\* checkWordOrder(userTokens, expectedTokens)
checkWordOrder(userTokens, expectedTokens) ==
  LET userNorm == Words(userTokens)
      expNorm == Words(expectedTokens)
  IN  Flatten([i \in 1..(Len(userNorm) - 1) |-> TranspositionAt(userNorm, expNorm, i)])
        \o Flatten([i \in 1..(Len(userNorm) - 1) |-> PlacementAt(userNorm, i)])

\* The confusable pairs, in the order of the list
Confusables ==
  << [a |-> "le", b |-> "la", rule |-> "article_gender", drill |-> "unit1_articles"],
     [a |-> "un", b |-> "une", rule |-> "article_gender", drill |-> "unit2_articles"],
     [a |-> "son", b |-> "sa", rule |-> "possessive_gender", drill |-> "unit4_possessives"],
     [a |-> "mon", b |-> "ma", rule |-> "possessive_gender", drill |-> "unit4_possessives"],
     [a |-> "ton", b |-> "ta", rule |-> "possessive_gender", drill |-> "unit4_possessives"],
     [a |-> "ce", b |-> "cette", rule |-> "demonstrative_gender", drill |-> "unit3_demonstratives"],
     [a |-> "au", b |-> "à la", rule |-> "contraction", drill |-> "unit3_contractions"],
     [a |-> "du", b |-> "de la", rule |-> "contraction", drill |-> "unit4_partitives"],
     [a |-> "bon", b |-> "bien", rule |-> "adj_vs_adv", drill |-> "unit7_adjectives"],
     [a |-> "c'est", b |-> "il est", rule |-> "cest_vs_ilest", drill |-> "unit2_etre"],
     [a |-> "savoir", b |-> "connaître", rule |-> "know_verbs", drill |-> "unit7_modals"],
     [a |-> "y", b |-> "en", rule |-> "pronoun_y_en", drill |-> "unit8_pronouns"],
     [a |-> "qui", b |-> "que", rule |-> "relative_pronouns", drill |-> "unit9_relatives"],
     [a |-> "être", b |-> "avoir", rule |-> "auxiliary_choice", drill |-> "unit9_passe_compose"] >>

\* text.includes(part)
Includes(text, part) ==
  \E i \in 0..(Len(text) - Len(part)) : SubSeq(text, i + 1, i + Len(part)) = part

\* The error pushed when the user's text has x and the expected text has y and not x
ConfusedFor(userLower, expLower, x, y, conf) ==
  IF Includes(userLower, Chars[x]) /\ Includes(expLower, Chars[y])
       /\ ~Includes(expLower, Chars[x])
    THEN <<Error("confusable", NoName, NoPosition, Chars[x], Chars[y],
                 <<"Confusion", Chars[x], Chars[y]>>, conf.drill)>>
    ELSE <<>>

\* checkConfusables(userInput, expected)
checkConfusables(userText, expectedText) ==
  LET userLower == toLowerCase(userText)
      expLower == toLowerCase(expectedText)
  IN  Flatten([i \in 1..Len(Confusables) |->
                 ConfusedFor(userLower, expLower, Confusables[i].a, Confusables[i].b,
                             Confusables[i])
                   \o ConfusedFor(userLower, expLower, Confusables[i].b, Confusables[i].a,
                                  Confusables[i])])

\* `${e.type}:${e.position}:${e.got}`
ErrorKey(e) == <<e.type, e.position, e.got>>

\* A filter that keeps the last error of every key
RECURSIVE deduplicateErrors_KeepLast(_, _)
deduplicateErrors_KeepLast(errors, seen) ==
  IF errors = <<>> THEN <<>>
  ELSE IF \E i \in 2..Len(errors) : ErrorKey(errors[i]) = ErrorKey(Head(errors))
    THEN deduplicateErrors_KeepLast(Tail(errors), seen)
    ELSE <<Head(errors)>> \o deduplicateErrors_KeepLast(Tail(errors), seen)

\* deduplicateErrors(errors): seen holds the keys of the errors passed
RECURSIVE deduplicateErrors(_, _)
deduplicateErrors(errors, seen) ==
  IF errors = <<>> THEN <<>>
  ELSE IF ErrorKey(Head(errors)) \in seen
    THEN deduplicateErrors(Tail(errors), seen)
    ELSE <<Head(errors)>>
           \o deduplicateErrors(Tail(errors), seen \cup {ErrorKey(Head(errors))})

\* The text for an empty error list
CorrectFeedback == [message |-> <<"Correct!">>, review |-> NoName, others |-> 0]

\* generateFeedback(errors): the message of the first error, its drill
\* suggestion and the number of other errors
generateFeedback(errors) ==
  IF Len(errors) = 0 THEN CorrectFeedback
  ELSE [message |-> errors[1].feedback, review |-> errors[1].drillLink,
        others |-> Len(errors) - 1]

\* uniqueErrors[0] || null
Null == [type |-> "null"]

\* The errors of the four detectors, one list after the other
DetectorErrors(userText, expectedText) ==
  LET userTokens == tokenize(userText)
      expectedTokens == tokenize(expectedText)
      userPOS == [i \in 1..Len(userTokens) |-> simplePOS(userTokens[i])]
      expectedPOS == [i \in 1..Len(expectedTokens) |-> simplePOS(expectedTokens[i])]
  IN  checkSpelling(userTokens, expectedTokens)
        \o checkGrammar(userTokens, expectedTokens, userPOS, expectedPOS)
        \o checkWordOrder(userTokens, expectedTokens)
        \o checkConfusables(userText, expectedText)

\* A classifier whose quick match compares the texts as they are
classify_ExactMatch(userText, expectedText) ==
  IF userText = expectedText THEN [correct |-> TRUE, errors |-> <<>>]
  ELSE LET uniqueErrors == deduplicateErrors(DetectorErrors(userText, expectedText), {})
       IN  [correct |-> FALSE, errors |-> uniqueErrors,
            primaryError |-> IF uniqueErrors = <<>> THEN Null ELSE uniqueErrors[1],
            feedback |-> generateFeedback(uniqueErrors)]

\* classify(userInput, expected)
classify(userText, expectedText) ==
  IF normalize(userText) = normalize(expectedText) THEN [correct |-> TRUE, errors |-> <<>>]
  ELSE LET uniqueErrors == deduplicateErrors(DetectorErrors(userText, expectedText), {})
       IN  [correct |-> FALSE, errors |-> uniqueErrors,
            primaryError |-> IF uniqueErrors = <<>> THEN Null ELSE uniqueErrors[1],
            feedback |-> generateFeedback(uniqueErrors)]

----------------------------------------------------------------------------
(* Classification of bounded texts *)

MaxWords == 2         \* words of a text

Vocabulary == {"le", "la", "chat", "vais"}

\* The words ws written one after the other with sep between them
RECURSIVE Join(_, _)
Join(ws, sep) ==
  IF ws = <<>> THEN <<>>
  ELSE IF Len(ws) = 1 THEN Chars[ws[1]]
  ELSE Chars[ws[1]] \o sep \o Join(Tail(ws), sep)

\* text with a capital first letter
Capitalise(text) ==
  IF text # <<>> /\ \E u \in DOMAIN LowerCaseOf : LowerCaseOf[u] = text[1]
    THEN <<CHOOSE u \in DOMAIN LowerCaseOf : LowerCaseOf[u] = text[1]>> \o Tail(text)
    ELSE text

WordLists == UNION {[1..n -> Vocabulary] : n \in 0..MaxWords}

\* Every list of words as it stands, as a sentence with a capital and a full
\* stop, and as a question with hyphens
Texts ==
  {Join(ws, <<" ">>) : ws \in WordLists}
    \cup {Capitalise(Join(ws, <<" ">>)) \o <<".">> : ws \in WordLists}
    \cup {Join(ws, <<"-">>) \o <<" ", "?">> : ws \in WordLists}

InitClassify ==
  /\ drillsData = OneDrill
  /\ FreshStorage
  /\ now = 0
  /\ NoSession
  /\ NoCloud
  /\ userInput \in Texts
  /\ expected \in Texts
  /\ result = NoResult

\* FSI_Error.classify(userInput, expected) returns
Classify ==
  /\ result = NoResult
  /\ result' = classify(userInput, expected)
  /\ UNCHANGED <<drillsData, authVars, cards, totalReviews, stored, backups, now, sessionVars,
                 userInput, expected>>

NextClassify == Classify

SpecClassify == InitClassify /\ [][NextClassify]_vars

----------------------------------------------------------------------------
(* Properties of the classifier *)

Classified == result # NoResult

\* C17: classify returns correct = true with an empty error list exactly when
\* the normalised texts are equal; a text classified against itself is correct.
C17_CorrectIffNormalizedEqual ==
  Classified =>
    /\ (result.correct /\ result.errors = <<>>)
         <=> normalize(userInput) = normalize(expected)
    /\ userInput = expected => result.correct

\* Two texts that differ in case, punctuation or hyphens were found correct
C17_Witness ==
  /\ Classified
  /\ result.correct
  /\ userInput # expected
  /\ Len(normalize(userInput)) > 0

\* C18: when the normalised texts differ, classify returns at least one error:
\* the list is not empty, primaryError is its first error and the feedback is
\* that error's message, never the text of a correct answer.
C18_MismatchHasError ==
  (Classified /\ normalize(userInput) # normalize(expected)) =>
    /\ ~result.correct
    /\ result.errors # <<>>
    /\ result.primaryError # Null
    /\ result.feedback # CorrectFeedback
    /\ result.feedback.message = result.primaryError.feedback

\* The words of a text: its tokens in lower case, punctuation left out
WordsOf(text) == Members(Words(tokenize(text)))

\* C19: every word of the expected text that the input lacks is named by a
\* missing-word error of the list classify returns.
C19_EveryMissingWordReported ==
  (Classified /\ ~result.correct) =>
    \A w \in WordsOf(expected) \ WordsOf(userInput) :
      \E i \in 1..Len(result.errors) :
        result.errors[i].type = "missing" /\ result.errors[i].expected = w

\* The findings of the detectors in the order spelling, grammar, word order, confusable
Findings ==
  LET userTokens == tokenize(userInput)
      expectedTokens == tokenize(expected)
      userPOS == [i \in 1..Len(userTokens) |-> simplePOS(userTokens[i])]
      expectedPOS == [i \in 1..Len(expectedTokens) |-> simplePOS(expectedTokens[i])]
  IN  checkSpelling(userTokens, expectedTokens)
        \o checkGrammar(userTokens, expectedTokens, userPOS, expectedPOS)
        \o checkWordOrder(userTokens, expectedTokens)
        \o checkConfusables(userInput, expected)

\* The indices of the list all that no earlier index shares its key with
FirstOfKey(all) ==
  LET keys == [i \in 1..Len(all) |-> ErrorKey(all[i])]
  IN  {i \in 1..Len(all) : \A j \in 1..(i - 1) : keys[j] # keys[i]}

\* The n-th index of the set of indices in rising order
NthOf(indices, n) ==
  CHOOSE i \in indices : Cardinality({j \in indices : j < i}) = n - 1

\* C20: the error list is the list of the detectors' findings, in the order
\* spelling, grammar, word order, confusable, without the findings that share
\* the key (type, position, got) with an earlier one; the order of the others
\* is kept and primaryError is the first of them.
C20_FindingsInOrderDeduplicated ==
  (Classified /\ ~result.correct) =>
    LET all == Findings
        first == FirstOfKey(all)
    IN  /\ Len(result.errors) = Cardinality(first)
        /\ \A n \in 1..Len(result.errors) : result.errors[n] = all[NthOf(first, n)]
        /\ result.primaryError = IF result.errors = <<>> THEN Null ELSE result.errors[1]

\* A spelling error leads a list with a confusable error, and a second
\* missing word was dropped for its key
C20_Witness ==
  /\ Classified
  /\ ~result.correct
  /\ Len(result.errors) < Len(Findings)
  /\ result.primaryError.type = "spelling"
  /\ \E i \in 1..Len(result.errors) : result.errors[i].type = "confusable"

----------------------------------------------------------------------------
(* normalize, tokenize and simplePOS on bounded strings *)

MaxLen == 4           \* characters of a string

\* A lower-case letter, a capital with an accent, the hyphen, three of the
\* stripped punctuation marks and two kinds of white space
Alphabet == {"a", "É", "-", ".", "'", "«", " ", "\t"}

Strings == UNION {[1..n -> Alphabet] : n \in 0..MaxLen}

\* The words of the tables of simplePOS and of the other lists
TableWords == {Chars[w] : w \in DOMAIN Chars}

InitText ==
  /\ drillsData = OneDrill
  /\ FreshStorage
  /\ now = 0
  /\ NoSession
  /\ NoCloud
  /\ userInput \in Strings \cup TableWords
  /\ expected = <<>>
  /\ result = NoResult

\* FSI_Error.normalize(userInput) returns
Normalize ==
  /\ result = NoResult
  /\ result' = [normalized |-> normalize(userInput)]
  /\ UNCHANGED <<drillsData, authVars, cards, totalReviews, stored, backups, now, sessionVars,
                 userInput, expected>>

\* FSI_Error.tokenize(userInput) returns
Tokenize ==
  /\ result = NoResult
  /\ result' = [tokens |-> tokenize(userInput)]
  /\ UNCHANGED <<drillsData, authVars, cards, totalReviews, stored, backups, now, sessionVars,
                 userInput, expected>>

\* FSI_Error.simplePOS(userInput) returns
Tag ==
  /\ result = NoResult
  /\ result' = [tag |-> simplePOS(userInput)]
  /\ UNCHANGED <<drillsData, authVars, cards, totalReviews, stored, backups, now, sessionVars,
                 userInput, expected>>

NextText == Normalize \/ Tokenize \/ Tag

SpecText == InitText /\ [][NextText]_vars

----------------------------------------------------------------------------
(* Properties of normalize, tokenize and simplePOS *)

Normalized == "normalized" \in DOMAIN result

Tokenized == "tokens" \in DOMAIN result

Tagged == "tag" \in DOMAIN result

\* C21: normalize is idempotent: the normal form of a normal form is that
\* normal form, for every string of letters in either case, hyphens, stripped
\* punctuation and white space.
C21_NormalizeIdempotent ==
  Normalized => normalize(result.normalized) = result.normalized

\* A string with a capital, a punctuation mark and white space around it was
\* normalised to a text that is not empty
C21_Witness ==
  /\ Normalized
  /\ Len(userInput) = MaxLen
  /\ \E i \in 1..Len(userInput) : userInput[i] \in DOMAIN LowerCaseOf
  /\ \E i \in 1..Len(userInput) : userInput[i] \in StrippedPunctuation
  /\ userInput[1] \in WhiteSpace
  /\ Len(result.normalized) > 0
  /\ result.normalized # userInput

----------------------------------------------------------------------------
(* Classification of texts with accents and with words inside words *)

\* Two words that differ in an accent, a word that holds "le", and "la"
AccentVocabulary == {"ou", "où", "elle", "la"}

AccentWordLists == UNION {[1..n -> AccentVocabulary] : n \in 0..MaxWords}

\* Every list of words as it stands, as a sentence with a capital and a full
\* stop, and with hyphens between the words
AccentTexts ==
  {Join(ws, <<" ">>) : ws \in AccentWordLists}
    \cup {Capitalise(Join(ws, <<" ">>)) \o <<".">> : ws \in AccentWordLists}
    \cup {Join(ws, <<"-">>) : ws \in AccentWordLists}

InitAccents ==
  /\ drillsData = OneDrill
  /\ FreshStorage
  /\ now = 0
  /\ NoSession
  /\ NoCloud
  /\ userInput \in AccentTexts
  /\ expected \in AccentTexts
  /\ result = NoResult

SpecAccents == InitAccents /\ [][NextClassify]_vars

----------------------------------------------------------------------------
(* Properties of the detectors *)

\* The input differs from the expected text in accents, and in hyphens for
\* spaces, and in nothing else
AccentOnly ==
  /\ HyphensToSpaces(stripAccents(userInput)) = HyphensToSpaces(stripAccents(expected))
  /\ normalize(userInput) # normalize(expected)

\* C22: an input that differs from the expected text only in accents (and in
\* a hyphen for a space) is incorrect, has a spelling error of subtype accent
\* and has no missing-word error.
C22_AccentOnlyMismatch ==
  (Classified /\ AccentOnly) =>
    /\ ~result.correct
    /\ \E i \in 1..Len(result.errors) :
         result.errors[i].type = "spelling" /\ result.errors[i].subtype = "accent"
    /\ \A i \in 1..Len(result.errors) : result.errors[i].type # "missing"

\* The words of the input at indices i, i + 1 (from 1) are the words of the
\* expected text at the same indices, the other way round
SwappedAt(i) ==
  LET userNorm == Words(tokenize(userInput))
      expNorm == Words(tokenize(expected))
  IN  /\ i + 1 <= Len(userNorm)
      /\ i + 1 <= Len(expNorm)
      /\ userNorm[i] = expNorm[i + 1]
      /\ userNorm[i + 1] = expNorm[i]

\* The result has a transposition error for the words at indices i, i + 1
TranspositionReported(i) ==
  \E n \in 1..Len(result.errors) :
    /\ result.errors[n].type = "word_order"
    /\ result.errors[n].subtype = NoName
    /\ result.errors[n].position = i - 1

\* C23 as stated: whenever two neighbouring words of the input are the words
\* at the same two places of the expected text in swapped order, the result
\* has a transposition error at that place.
C23_SwapReported ==
  Classified =>
    \A i \in 1..Len(userInput) : SwappedAt(i) => TranspositionReported(i)

\* C23: when the normalised texts differ, every pair of neighbouring words of
\* the input that are the words at the same two places of the expected text
\* in swapped order has a transposition error at that place in the result.
C23_SwapReportedUnlessEqual ==
  (Classified /\ normalize(userInput) # normalize(expected)) =>
    \A i \in 1..Len(userInput) : SwappedAt(i) => TranspositionReported(i)

\* Two different words were swapped and the swap was reported
C23_Witness ==
  /\ Classified
  /\ ~result.correct
  /\ SwappedAt(1)
  /\ Words(tokenize(userInput))[1] # Words(tokenize(userInput))[2]
  /\ TranspositionReported(1)

----------------------------------------------------------------------------
(* Properties of records read from outside *)

\* C24: a record with an ease below 1.3 is clamped when it is read: after an
\* import and after any grading, every record of Storage.data has an ease of
\* at least 1.3.
C24_EaseClampedOnRead ==
  \A d \in DOMAIN cards : cards[d].ease >= EaseFloor

----------------------------------------------------------------------------
(* Repeated calls of classify and of reviewCard *)

MaxCalls == 2         \* gradings of a run with repeated calls

\* The texts classified again and again
RepeatTexts == {Join(<<"le", "chat">>, <<" ">>), Join(<<"la", "chat">>, <<" ">>)}

\* A call and what it returned
Returned(args, value) == [args |-> args, value |-> value]

\* The last call of classify and the last call of reviewCard, none so far
NoCalls == [classify |-> NoResult, reviewCard |-> NoResult]

InitRepeat ==
  /\ drillsData = SmallCatalogue
  /\ FreshStorage
  /\ now = 0
  /\ NoSession
  /\ NoCloud
  /\ userInput = <<>>
  /\ expected = <<>>
  /\ result = NoCalls

\* Storage.reviewCard(d, quality) returns the card
ReviewCardReturns(d, quality) ==
  /\ d \in DrillIds
  /\ totalReviews < MaxCalls
  /\ ReviewCardStorage(d, quality)
  /\ result' = [result EXCEPT
                  !.reviewCard = Returned(<<getCard(cards, d)[d], quality, now>>, cards'[d])]
  /\ UNCHANGED <<drillsData, authVars, now, sessionVars, userInput, expected>>

\* FSI_Error.classify(u, e) returns
ClassifyReturns(u, e) ==
  /\ userInput' = u
  /\ expected' = e
  /\ result' = [result EXCEPT !.classify = Returned(<<u, e>>, classify(u, e))]
  /\ UNCHANGED <<drillsData, authVars, cards, totalReviews, stored, backups, now, sessionVars>>

NextRepeat ==
  \/ \E d \in DrillIds, q \in Quality : ReviewCardReturns(d, q)
  \/ \E u \in RepeatTexts, e \in RepeatTexts : ClassifyReturns(u, e)
  \/ Tick

SpecRepeat == InitRepeat /\ [][NextRepeat]_vars

\* The call this was made with the arguments of the earlier call last
SameCallAgain(last, this) ==
  /\ last # NoResult
  /\ this.args = last.args

C26_TablesBeforeSuffixes ==
  Tagged =>
    LET w == toLowerCase(userInput)
    IN  (InTable(w, Prepositions) \/ InTable(w, Conjunctions) \/ InTable(w, Adverbs))
          => result.tag = simplePOS_TablesFirst(userInput)

\* The distances from the token w to the tokens of a list, case set aside
DistancesTo(w, tokens) ==
  {levenshtein(toLowerCase(w), toLowerCase(tokens[j])) : j \in 1..Len(tokens)}

\* The token w has a token of the list at distance 1 or 2 and none nearer
NearMiss(w, tokens) ==
  LET ds == DistancesTo(w, tokens)
  IN  0 \notin ds /\ (1 \in ds \/ 2 \in ds)

\* The errors of the result that checkSpelling pushed for the user token at index i
SpellingAt(i) ==
  {n \in 1..Len(result.errors) :
     result.errors[n].type = "spelling" /\ result.errors[n].position = i - 1}

\* C27: for every input token that is no punctuation the result has exactly
\* one spelling error when the least distance to the expected tokens is 1 or
\* 2 and none otherwise; the subtype is accent exactly when the two tokens are
\* equal after stripping accents, case set aside, and typo otherwise.
C27_SpellingExact ==
  (Classified /\ ~result.correct) =>
    LET userTokens == tokenize(userInput)
        expectedTokens == tokenize(expected)
    IN  \A i \in 1..Len(userTokens) :
          /\ Cardinality(SpellingAt(i)) =
               IF NotPunct(userTokens[i]) /\ NearMiss(userTokens[i], expectedTokens)
                 THEN 1 ELSE 0
          /\ \A n \in SpellingAt(i) :
               /\ result.errors[n].got = userTokens[i]
               /\ result.errors[n].subtype \in {"accent", "typo"}
               /\ result.errors[n].subtype = "accent"
                    <=> stripAccents(toLowerCase(result.errors[n].got))
                          = stripAccents(toLowerCase(result.errors[n].expected))

\* The words of a text in its normal form
NormalWords(text) ==
  LET nonEmpty(t) == Len(t) > 0
  IN  SelectSeq(SplitAtSpaces(normalize(text), <<>>), nonEmpty)

\* The words of the phrase stand in the text as words, one after the other
HasWords(text, phrase) ==
  LET ws == NormalWords(text)
      ps == NormalWords(phrase)
  IN  \E i \in 0..(Len(ws) - Len(ps)) : SubSeq(ws, i + 1, i + Len(ps)) = ps

\* The result has a confusable error for x written where y was expected
ConfusableReported(x, y) ==
  \E n \in 1..Len(result.errors) :
    /\ result.errors[n].type = "confusable"
    /\ result.errors[n].got = Chars[x]
    /\ result.errors[n].expected = Chars[y]

\* The input has x as a word, the expected text has y as a word and not x
WordConfused(x, y) ==
  /\ HasWords(userInput, Chars[x])
  /\ HasWords(expected, Chars[y])
  /\ ~HasWords(expected, Chars[x])

\* C28: the result has a confusable error for a pair (a, b) exactly when the
\* input has a as a word and the expected text has b as a word and not a, and
\* likewise with a and b exchanged; a member that stands only inside another
\* word counts for nothing.
C28_ConfusableWords ==
  (Classified /\ ~result.correct) =>
    \A i \in 1..Len(Confusables) :
      /\ ConfusableReported(Confusables[i].a, Confusables[i].b)
           <=> WordConfused(Confusables[i].a, Confusables[i].b)
      /\ ConfusableReported(Confusables[i].b, Confusables[i].a)
           <=> WordConfused(Confusables[i].b, Confusables[i].a)

\* Every hyphen of the text stands between two letters
HyphensInWords(text) ==
  LET letter(c) == c \notin WhiteSpace \cup StrippedPunctuation \cup {"-"}
  IN  \A i \in 1..Len(text) :
        text[i] = "-" => i > 1 /\ i < Len(text) /\ letter(text[i - 1]) /\ letter(text[i + 1])

\* C29: tokenize splits at hyphens: a string with hyphens between its words
\* has the tokens of the string that has a space in the place of each hyphen.
C29_HyphenSplits ==
  (Tokenized /\ HyphensInWords(userInput))
    => result.tokens = tokenize(HyphensToSpaces(userInput))

----------------------------------------------------------------------------
(* The drill session of src/unnamed/part_001, with its retry mode *)

\* The rating Again: "1;  // Default to Again"
Again == 1

\* A retry branch that counts the retyped answer as a correct attempt
LeaveRetry_Counted ==
  /\ retryMode' = FALSE
  /\ nextBtnShown' = TRUE
  /\ sessionCorrect' = sessionCorrect + 1
  /\ sessionTotal' = sessionTotal + 1
  /\ UNCHANGED <<cards, totalReviews, stored, backups, currentDrills, timers>>

\* if (retryMode && result.correct): leave retry mode, show NEXT, return
LeaveRetry ==
  /\ retryMode' = FALSE
  /\ nextBtnShown' = TRUE
  /\ UNCHANGED <<cards, totalReviews, stored, backups, currentDrills, sessionCorrect, sessionTotal,
                 timers>>

\* checkAnswer() of part_001 by the check button, or by Enter while nextBtn is
\* hidden; rating is FSI_SRS.Rating.Good for a correct answer and what
\* FSI_SRS.errorToRating returns for an incorrect one
CheckAnswerRetry(correct, rating, k) ==
  /\ drillActive
  /\ ~nextBtnShown
  /\ correct => rating >= GoodThreshold
  /\ IF retryMode /\ correct
       THEN LeaveRetry
       ELSE /\ sessionTotal < MaxAttempts
            /\ sessionTotal' = sessionTotal + 1
            /\ ReviewCardStorage(CurrentDrill.id, rating)
            /\ IF correct
                 THEN /\ sessionCorrect' = sessionCorrect + 1
                      /\ timers' = timers + 1
                      /\ UNCHANGED <<currentDrills, retryMode, nextBtnShown>>
                 ELSE /\ IF rating = Again THEN Requeue(k) ELSE UNCHANGED currentDrills
                      /\ retryMode' = TRUE
                      /\ UNCHANGED <<sessionCorrect, timers, nextBtnShown>>
  /\ UNCHANGED <<drillsData, authVars, now, currentDrillIndex, currentMode, drillActive, classifyVars>>

\* nextDrill() of part_001: updateDrillDisplay() ends the retry mode when it
\* finds a drill at the cursor
NextDrillBodyRetry ==
  /\ NextDrillBody
  /\ retryMode' = IF currentDrillIndex' >= Len(currentDrills) THEN retryMode ELSE FALSE
  /\ UNCHANGED <<drillsData, authVars, cards, totalReviews, stored, backups, now, currentDrills,
                 sessionCorrect, sessionTotal, currentMode, classifyVars>>

\* nextDrill() by the next button, or by Enter while nextBtn is shown
NextDrillRetry ==
  /\ drillActive
  /\ nextBtnShown
  /\ NextDrillBodyRetry
  /\ UNCHANGED timers

\* skipDrill() by the skip button
SkipDrillRetry ==
  /\ drillActive
  /\ NextDrillBodyRetry
  /\ UNCHANGED timers

\* The setTimeout(() => nextDrill(), 1000) callback of a correct answer runs
AutoAdvanceRetry ==
  /\ timers > 0
  /\ timers' = timers - 1
  /\ NextDrillBodyRetry

NextRetry ==
  \/ ClickStartSRS
  \/ \E correct \in BOOLEAN, rating \in Quality, k \in RandomOffsets :
       CheckAnswerRetry(correct, rating, k)
  \/ NextDrillRetry
  \/ SkipDrillRetry
  \/ AutoAdvanceRetry

SpecRetry == InitDrill /\ [][NextRetry]_vars

\* A correct answer is checked in retry mode
CorrectRetry ==
  /\ retryMode
  /\ \E rating \in Quality, k \in RandomOffsets : CheckAnswerRetry(TRUE, rating, k)

\* C30: a correct answer typed in retry mode changes neither sessionCorrect
\* nor sessionTotal nor any record nor the queue; it ends the retry mode and
\* shows the next button, and nothing else.
C30_RetryOnlyLeavesRetryMode ==
  [][CorrectRetry =>
       /\ UNCHANGED <<sessionCorrect, sessionTotal, cards, totalReviews, stored, backups,
                      currentDrills, currentDrillIndex, currentMode, drillActive, timers>>
       /\ ~retryMode'
       /\ nextBtnShown']_vars

\* The missed drill was graded once and retyped correctly: the next button
\* is shown, one attempt is counted and none is correct
C30_Witness ==
  /\ drillActive
  /\ nextBtnShown
  /\ ~retryMode
  /\ sessionTotal = 1
  /\ sessionCorrect = 0
  /\ totalReviews = 1
  /\ cards[CurrentDrill.id].reps = 1
  /\ cards[CurrentDrill.id].lapses = 1
  /\ Len(currentDrills) = Len(drillsData) + 1

----------------------------------------------------------------------------
(* Daily backups of Storage.save *)

MaxDay == 12          \* last day of a run of saves

\* Storage.save() with the progress as it is
StorageSave ==
  /\ save(cards, totalReviews)
  /\ UNCHANGED <<drillsData, authVars, cards, totalReviews, now, sessionVars, classifyVars>>

\* Midnight (UTC) passes
NextDay ==
  /\ now < MaxDay
  /\ now' = now + 1
  /\ UNCHANGED <<drillsData, authVars, cards, totalReviews, stored, backups, sessionVars,
                 classifyVars>>

NextBackup == StorageSave \/ NextDay

SpecBackup == Init /\ [][NextBackup]_vars

\* C31: after every Storage.save() localStorage holds at most 10 daily backups, the
\* backup of the current day among them
C31_AtMostTenBackups ==
  [][StorageSave => Cardinality(backups') <= KeepBackups /\ now \in backups']_vars

----------------------------------------------------------------------------
(* Cloud storage via JSONbin (FSI_Auth of src/unnamed/part_000), with an API key set. *)
(* Responses are numbered in the order saveResponse accepts them.  A call of          *)
(* flushPendingWrites waiting on a fetch is a record of flushes: toSend, whether      *)
(* getBinData has returned, and the responses of the user it returned.  cloud is      *)
(* the user's responses in the bin JSONBIN_BIN_ID names (empty while there is none).  *)
(* The session specifications run FSI_Auth with the key the source ships, with which  *)
(* saveResponse returns before it touches the queue.                                  *)

MaxRecords == 5       \* responses saved in a run
FlushAt == 5          \* if (this.pendingWrites.length >= 5)
KeepResponses == 500  \* responses.slice(-500)

engineVars == <<drillsData, cards, totalReviews, stored, backups, now, sessionVars,
                classifyVars>>

Range(s) == {s[i] : i \in 1..Len(s)}

\* s.slice(-n)
Last(s, n) == IF Len(s) > n THEN SubSeq(s, Len(s) - n + 1, Len(s)) ELSE s

\* flushPendingWrites() on the non-empty queue, up to its first await
flushPendingWrites(queue) ==
  /\ pendingWrites' = <<>>
  /\ pendingStored' = <<>>
  /\ flushes' = flushes \cup {[toSend |-> queue, got |-> FALSE, responses |-> <<>>]}

\* saveResponse(response)
SaveResponse ==
  /\ accepted < MaxRecords
  /\ accepted' = accepted + 1
  /\ LET queue == Append(pendingWrites, accepted')
     IN  IF Len(queue) >= FlushAt
           THEN flushPendingWrites(queue)
           ELSE /\ pendingWrites' = queue
                /\ pendingStored' = queue
                /\ UNCHANGED flushes
  /\ UNCHANGED <<cloud, engineVars>>

\* The 60-second interval calls flushPendingWrites()
TimerFlush ==
  /\ pendingWrites # <<>>
  /\ flushPendingWrites(pendingWrites)
  /\ UNCHANGED <<cloud, accepted, engineVars>>

\* await getBinData() returns the bin (null, read as no responses, without a bin)
GetReturns(f) ==
  /\ f \in flushes
  /\ ~f.got
  /\ flushes' = (flushes \ {f}) \cup {[f EXCEPT !.got = TRUE, !.responses = cloud]}
  /\ UNCHANGED <<pendingWrites, pendingStored, cloud, accepted, engineVars>>

\* await saveBinData(binData) returns: the PUT (or POST) replaced the bin
PutReturns(f) ==
  /\ f \in flushes
  /\ f.got
  /\ cloud' = Last(f.responses \o f.toSend, KeepResponses)
  /\ flushes' = flushes \ {f}
  /\ UNCHANGED <<pendingWrites, pendingStored, accepted, engineVars>>

\* A catch that puts the records of the failed flush behind the queue
RequeueSent_Behind(f) ==
  /\ pendingWrites' = pendingWrites \o f.toSend
  /\ pendingStored' = pendingWrites'

\* catch (e): this.pendingWrites = [...toSend, ...this.pendingWrites]; savePendingWrites()
RequeueSent(f) ==
  /\ pendingWrites' = f.toSend \o pendingWrites
  /\ pendingStored' = pendingWrites'

\* The GET, the PUT or the POST throws
FetchThrows(f) ==
  /\ f \in flushes
  /\ RequeueSent(f)
  /\ flushes' = flushes \ {f}
  /\ UNCHANGED <<cloud, accepted, engineVars>>

NextJsonbin ==
  \/ SaveResponse
  \/ TimerFlush
  \/ \E f \in flushes : GetReturns(f)
  \/ \E f \in flushes : PutReturns(f)
  \/ \E f \in flushes : FetchThrows(f)

SpecJsonbin == Init /\ [][NextJsonbin]_vars

----------------------------------------------------------------------------
(* What Storage.import returns *)

\* Storage.import(text) returns true for a document and false otherwise
ImportReturns(text) ==
  /\ ImportStorage(text)
  /\ result' = Returned(text, text.kind = "document")
  /\ UNCHANGED <<drillsData, authVars, now, sessionVars, userInput, expected>>

\* A graded attempt between imports
GradeBetweenImports(d, quality) ==
  /\ totalReviews < MaxCalls
  /\ ReviewCardStep(d, quality)

NextImportReturns ==
  \/ \E text \in ImportTexts : ImportReturns(text)
  \/ \E d \in DrillIds, q \in Quality : GradeBetweenImports(d, q)
  \/ Tick

SpecImportReturns == InitImport /\ [][NextImportReturns]_vars

\* C33: import of a text that is not JSON or lacks version or cards returns false and
\* leaves Storage.data and the persisted progress as they were; import of a document
\* returns true and Storage.data is the document
C33_ImportAllOrNothing ==
  [][\A text \in ImportTexts : ImportReturns(text) =>
       IF text.kind = "document"
         THEN /\ result'.value = TRUE
              /\ cards' = text.cards
              /\ totalReviews' = text.totalReviews
         ELSE /\ result'.value = FALSE
              /\ UNCHANGED <<cards, totalReviews, stored, backups>>]_vars

\* An import was refused after progress had been saved
C33_Witness ==
  /\ result # NoResult
  /\ result.value = FALSE
  /\ totalReviews >= 1
  /\ stored # <<>>

----------------------------------------------------------------------------
(* One grading and one advance for each presentation *)

\* C34: between a correct answer and the automatic advance it schedules, no event
\* grades the item again (no second reps or sessionCorrect increment) and the cursor
\* moves only by that automatic advance
C34_GradedOnceAdvancedOnce ==
  [][timers > 0 =>
       /\ totalReviews' = totalReviews
       /\ cards' = cards
       /\ sessionCorrect' = sessionCorrect
       /\ currentDrillIndex' # currentDrillIndex => timers' = timers - 1]_vars

----------------------------------------------------------------------------
(* Termination of a session *)

\* The step counted an attempt as missed
MissedAttempt == Attempt /\ sessionCorrect' = sessionCorrect

\* C35: an SRS session of a learner who keeps advancing ends, the cursor at the queue
\* length, once the missed attempts stop; every missed attempt lengthens the queue by
\* one item and nothing else lengthens it
C35_SessionTerminates ==
  /\ drillActive ~> (~drillActive /\ currentDrillIndex >= Len(currentDrills))
  /\ [][drillActive /\ currentMode = "srs" =>
          IF MissedAttempt THEN Len(currentDrills') = Len(currentDrills) + 1
          ELSE currentDrills' = currentDrills]_vars

\* A session with a missed attempt has ended
C35_Witness ==
  /\ currentMode = "srs"
  /\ ~drillActive
  /\ currentDrillIndex = Len(currentDrills)
  /\ sessionTotal > sessionCorrect
  /\ \E i \in 1..Len(currentDrills) : WrongCount(currentDrills[i]) >= 1

----------------------------------------------------------------------------
(* Overlapping flushes *)

\* How often r occurs in s
Occurrences(r, s) == Cardinality({i \in 1..Len(s) : s[i] = r})

\* C36: with fewer than 500 responses in the bin, once the flushes have returned every
\* record saveResponse accepted is in the cloud responses or in pendingWrites, once
C36_EveryRecordOnce ==
  (flushes = {} /\ accepted < KeepResponses) =>
     \A r \in 1..accepted : Occurrences(r, cloud \o pendingWrites) = 1

----------------------------------------------------------------------------
(* Queued responses and a reload of the page *)

\* C37: every response that was queued and has not been sent is in the list persisted
\* in localStorage, also while a flush is in flight
C37_UnsentArePersisted ==
  \A r \in 1..accepted : r \notin Range(cloud) => r \in Range(pendingStored)

----------------------------------------------------------------------------
(* Cloud storage via Firestore (FSI_Auth of src/js/fsi-auth.js), signed in at every   *)
(* flush.  A call of flushPendingWrites waiting on batch.commit() is a record of      *)
(* flushes: the items it put into the batch (toRemove is 0 .. their number - 1) and   *)
(* the number of the call.  cloud is the documents of the user's responses in the     *)
(* order they were written.                                                           *)

MaxFlights == 2       \* flushPendingWrites calls in flight at a time
BatchLimit == 500     \* Math.min(this.pendingWrites.length, 500)

\* saveResponse(response): the document is added, or the response is queued (not
\* signed in, Firestore not enabled, or the add failed)
FirestoreSaveResponse(added) ==
  /\ accepted < MaxRecords
  /\ accepted' = accepted + 1
  /\ IF added
       THEN cloud' = Append(cloud, accepted') /\ UNCHANGED pendingWrites
       ELSE pendingWrites' = Append(pendingWrites, accepted') /\ UNCHANGED cloud
  /\ UNCHANGED <<pendingStored, flushes, engineVars>>

\* The 30-second interval calls flushPendingWrites(), which builds the batch
FirestoreFlush ==
  /\ pendingWrites # <<>>
  /\ Cardinality(flushes) < MaxFlights
  /\ LET call == CHOOSE k \in 1..MaxFlights : \A f \in flushes : f.call # k
         n    == MinOf(Len(pendingWrites), BatchLimit)
     IN  flushes' = flushes \cup {[batch |-> SubSeq(pendingWrites, 1, n), call |-> call]}
  /\ UNCHANGED <<pendingWrites, pendingStored, cloud, accepted, engineVars>>

\* s.splice(i, 1), i counted from 0
SpliceOut(s, i) ==
  IF i < Len(s) THEN SubSeq(s, 1, i) \o SubSeq(s, i + 2, Len(s)) ELSE s

\* toRemove.reverse().forEach(i => this.pendingWrites.splice(i, 1)), toRemove = 0 .. n - 1
RECURSIVE RemoveSynced(_, _)
RemoveSynced(s, n) == IF n = 0 THEN s ELSE RemoveSynced(SpliceOut(s, n - 1), n - 1)

\* await batch.commit() returns
CommitReturns(f) ==
  /\ f \in flushes
  /\ cloud' = cloud \o f.batch
  /\ pendingWrites' = RemoveSynced(pendingWrites, Len(f.batch))
  /\ flushes' = flushes \ {f}
  /\ UNCHANGED <<pendingStored, accepted, engineVars>>

\* await batch.commit() throws
CommitThrows(f) ==
  /\ f \in flushes
  /\ flushes' = flushes \ {f}
  /\ UNCHANGED <<pendingWrites, pendingStored, cloud, accepted, engineVars>>

NextFirestore ==
  \/ \E added \in BOOLEAN : FirestoreSaveResponse(added)
  \/ FirestoreFlush
  \/ \E f \in flushes : CommitReturns(f)
  \/ \E f \in flushes : CommitThrows(f)

SpecFirestore == Init /\ [][NextFirestore]_vars

\* C38: flushPendingWrites removes from pendingWrites the items whose commit succeeded
\* and no others, and leaves the queue as it is when the commit fails, also when items
\* are appended or a second flush starts during the commit: no unsent item is removed
\* and no item is committed twice
C38_RemovesWhatWasCommitted ==
  \A r \in 1..accepted :
     /\ Occurrences(r, cloud) <= 1
     /\ r \in Range(cloud) \/ r \in Range(pendingWrites)

----------------------------------------------------------------------------
(* Invariants and frame of the grading *)

\* Gradings of the two drills of the catalogue over the days, without a session
NextGrading ==
  \/ \E d \in DrillIds, q \in Quality : ReviewCard(d, q)
  \/ Tick

SpecGrading == Init /\ [][NextGrading]_vars

\* C39: from fresh records, after any gradings: a learning card has interval 1, a
\* review card an interval from 3 to 180, no card more lapses than repetitions, and
\* totalReviews is the sum of reps over all cards
C39_FreshInvariants ==
  /\ \A d \in DOMAIN cards :
        /\ cards[d].state = "learning" => cards[d].interval = 1
        /\ cards[d].state = "review" => 3 <= cards[d].interval /\ cards[d].interval <= 180
        /\ cards[d].lapses <= cards[d].reps
  /\ totalReviews = SumReps(cards, DOMAIN cards)

\* Both cards were graded, one is in review beyond its first interval and one has lapsed
C39_Witness ==
  /\ DOMAIN cards = {1, 2}
  /\ \E d \in DOMAIN cards : cards[d].state = "review" /\ cards[d].interval > 3
  /\ \E d \in DOMAIN cards : cards[d].state = "learning" /\ cards[d].lapses >= 1
  /\ \A d \in DOMAIN cards : cards[d].reps >= 1
  /\ totalReviews = MaxReviews

\* C40: a grading of a drill leaves the record of every other drill as it was, a grading
\* with quality below 2 (Again) leaves the ease of the graded drill as it was, and no
\* grading with quality 0 to 3 lowers an ease
C40_GradingIsLocal ==
  [][\A d \in DrillIds, q \in Quality :
       ReviewCard(d, q) =>
          /\ \A x \in DOMAIN cards \ {d} : cards'[x] = cards[x]
          /\ q < GoodThreshold => cards'[d].ease = Before(d).ease
          /\ \A x \in DOMAIN cards : cards'[x].ease >= cards[x].ease]_vars

\* A card that has been raised above the starting ease lapsed, next to a graded card
C40_Witness ==
  /\ DOMAIN cards = {1, 2}
  /\ cards[1].ease > SRS_DEFAULTS.ease
  /\ cards[1].lapses >= 1
  /\ cards[1].state = "learning"
  /\ cards[1].lastReview = now
  /\ cards[2].reps >= 1

====
